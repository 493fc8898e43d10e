------------------------------ MODULE LoggerProofs ------------------------------
(***************************************************************************)
(* Proofs about Logger for any number of producers, controllers, records,  *)
(* sinks and initializations, any levels and configurations, and any       *)
(* bounds: its states (I), the way of a record from push() to the sinks    *)
(* (II), and the contracts it keeps (III).                                 *)
(***************************************************************************)
EXTENDS LoggerContract, SequenceTheorems, TLAPS

--------------------------------------------------------------------------------
(***************************************************************************)
(* I. Which states the Logger can be in                                    *)
(***************************************************************************)

(* What the calls of the queue do, as far as the Logger depends on it      *)

(* Only thread t moves, to a state of a queue call.                        *)
OnlyMoves(t) ==
  \E s \in Q!States, r \in Q!Results :
    /\ pc' = [pc EXCEPT ![t] = s]
    /\ result' = [result EXCEPT ![t] = r]

(* A push() of v with the generation g leaves the settings of the queue    *)
(* alone and may add one element, under a generation that is still current *)
Pushes(p, v, g) ==
  /\ OnlyMoves(p)
  /\ queue' \in Seq(Q!Entry) /\ highWaterMark' \in Nat /\ droppedCount' \in Nat
  /\ UNCHANGED <<capacity, overflowPolicy, closed, generation>>
  /\ result'[p] \in {"Enqueued", "DroppedOldest"} => queue' # <<>>
  /\ \A i \in 1..Len(queue') :
       \/ \E j \in 1..Len(queue) : queue'[i] = queue[j]
       \/ queue'[i] = [value |-> v, generation |-> g] /\ g = generation
  /\ pc'[p] = "notFullWait" => g = generation

(* Every path through push() leaves in the queue only elements that were   *)
(* there and its own, and moves no other thread.                           *)
LEMMA PushDoes ==
  ASSUME Q!TypeOK, NEW p \in Producers, NEW v \in LogRecord, NEW g \in Nat,
         Q!PushLocked(p, v, g) \/ Q!AwaitRoom(p, v, g)
  PROVE  Pushes(p, v, g)
<1> DEFINE e == [value |-> v, generation |-> g]
<1> USE DEF Q!TypeOK
<1>1. e \in Q!Entry /\ p \in Q!Threads
  BY DEF Q!Entry, Q!Threads
<1>2. ASSUME NEW s \in {"idle", "notifyEmpty", "notFullWait"},
             NEW r \in {"none", "Enqueued", "DroppedNewest", "DroppedOldest",
                        "Closed"},
             Q!Finish(p, s, r)
      PROVE  OnlyMoves(p) /\ pc'[p] = s /\ result'[p] = r
  BY <1>1, <1>2
  DEF Q!Finish, OnlyMoves, Q!States, Q!NotFullStates, Q!Results
<1>3. CASE Q!Refuse(p) \/ Q!DropNewest(p)
  BY <1>2, <1>3 DEF Q!Refuse, Q!DropNewest, Q!members, Pushes
<1>4. CASE ~Q!WaitOver(g) /\ Q!Finish(p, "notFullWait", "none") /\ UNCHANGED Q!members
  BY <1>2, <1>4 DEF Q!WaitOver, Q!members, Pushes
<1>5. ASSUME NEW rest \in Seq(Q!Entry), Q!EmplaceLocked(rest, e)
      PROVE  /\ queue' \in Seq(Q!Entry) /\ highWaterMark' \in Nat
             /\ queue' # <<>>
             /\ \A i \in 1..Len(queue') :
                  (\E j \in 1..Len(rest) : queue'[i] = rest[j]) \/ queue'[i] = e
  <2>1. queue' = Append(rest, e)
    BY <1>5 DEF Q!EmplaceLocked
  <2>2. /\ queue' \in Seq(Q!Entry) /\ Len(queue') = Len(rest) + 1
        /\ \A i \in 1..Len(rest) : queue'[i] = rest[i]
        /\ queue'[Len(rest) + 1] = e
    BY <1>1, <2>1, AppendProperties
  <2>3. highWaterMark' \in Nat
    BY <1>5 DEF Q!EmplaceLocked
  <2>4. \A i \in 1..Len(queue') : i \in 1..Len(rest) \/ i = Len(rest) + 1
    BY <2>2
  <2>5. queue' # <<>>
    BY <2>2
  <2> HIDE DEF e
  <2>6. \A i \in 1..Len(queue') :
          (\E j \in 1..Len(rest) : queue'[i] = rest[j]) \/ queue'[i] = e
    BY <2>2, <2>4
  <2> QED
    BY <2>2, <2>3, <2>5, <2>6
<1>6. CASE g = generation /\ Q!Enqueue(p, v, g)
  BY <1>2, <1>5, <1>6 DEF Q!Enqueue, Pushes
<1>7. CASE g = generation /\ Q!DropOldest(p, v, g) /\ Len(queue) >= capacity
  <2>1. queue # <<>>
    BY <1>7
  <2>2. /\ Tail(queue) \in Seq(Q!Entry)
        /\ \A i \in 1..Len(Tail(queue)) :
             i + 1 \in 1..Len(queue) /\ Tail(queue)[i] = queue[i + 1]
    BY <2>1, HeadTailProperties
  <2>3. \A i \in 1..Len(Tail(queue)) : \E j \in 1..Len(queue) : Tail(queue)[i] = queue[j]
    BY <2>2
  <2>4. Q!EmplaceLocked(Tail(queue), e)
    BY <1>7 DEF Q!DropOldest
  <2>5. \A i \in 1..Len(queue') :
          (\E j \in 1..Len(queue) : queue'[i] = queue[j]) \/ queue'[i] = e
    <3>1. \A i \in 1..Len(queue') :
            \/ \E j \in 1..Len(Tail(queue)) : queue'[i] = Tail(queue)[j]
            \/ queue'[i] = e
      BY <1>5, <2>2, <2>4
    <3> HIDE DEF e
    <3> QED
      BY <2>3, <3>1
  <2>6. queue' \in Seq(Q!Entry) /\ highWaterMark' \in Nat /\ queue' # <<>>
    BY <1>5, <2>2, <2>4
  <2> QED
    BY <1>2, <1>7, <2>5, <2>6 DEF Q!DropOldest, Pushes
<1>8. Q!Rejected(g) \/ g = generation
  BY DEF Q!Rejected
<1> QED
  BY <1>3, <1>4, <1>6, <1>7, <1>8 DEF Q!PushLocked, Q!AwaitRoom

(* The end of a wait for elements: the worker gets elements of the queue,  *)
(* or none because there are none.                                         *)
Takes(c) ==
  /\ OnlyMoves(c)
  /\ UNCHANGED <<capacity, overflowPolicy, highWaterMark, droppedCount, closed,
                 generation>>
  /\ queue' \in Seq(Q!Entry) /\ batch' \in [{Worker} -> Seq(Q!Entry)]
  /\ \A i \in 1..Len(queue') : \E j \in 1..Len(queue) : queue'[i] = queue[j]
  /\ \A i \in 1..Len(batch'[c]) : \E j \in 1..Len(queue) : batch'[c][i] = queue[j]
  /\ result'[c] = "noValues" => queue = <<>> /\ queue' = <<>>
  /\ result'[c] \in {"values", "noValues"}
  /\ pc'[c] \in {"idle", "notifyFullOne", "notifyFullAll"}

(* Every end of popBatch() and popBatchFor() takes elements of the queue,  *)
(* or none because there are none, and moves no other thread.              *)
LEMMA TakeDoes ==
  ASSUME Q!TypeOK, NEW m, NEW n \in Nat \ {0}, Q!TakeLocked(Worker, m, n)
  PROVE  Takes(Worker)
<1> DEFINE k == IF Len(queue) < n THEN Len(queue) ELSE n
<1> USE DEF Q!TypeOK
<1>1. Worker \in Q!Threads
  BY DEF Q!Threads
<1>2. ASSUME NEW s \in {"idle", "notifyFullOne", "notifyFullAll"},
             NEW r \in {"values", "noValues"}, Q!Finish(Worker, s, r)
      PROVE  OnlyMoves(Worker) /\ pc'[Worker] = s /\ result'[Worker] = r
  BY <1>1, <1>2 DEF Q!Finish, OnlyMoves, Q!States, Q!Results
<1>3. CASE queue = <<>>
  <2>1. /\ batch' = [batch EXCEPT ![Worker] = <<>>]
        /\ Q!Finish(Worker, "idle", "noValues") /\ UNCHANGED Q!members
    BY <1>3 DEF Q!TakeLocked
  <2>2. batch' \in [{Worker} -> Seq(Q!Entry)] /\ Len(batch'[Worker]) = 0
    BY <2>1
  <2> QED
    BY <1>2, <1>3, <2>1, <2>2 DEF Q!members, Takes
<1>4. CASE queue # <<>>
  <2>1. /\ batch' = [batch EXCEPT ![Worker] = SubSeq(queue, 1, k)]
        /\ queue' = SubSeq(queue, k + 1, Len(queue))
        /\ Q!Finish(Worker, Q!NotifyAfter(m), "values")
        /\ UNCHANGED <<capacity, overflowPolicy, highWaterMark, droppedCount,
                       closed, generation>>
    BY <1>4 DEF Q!TakeLocked
  <2>2. k \in Nat /\ Len(queue) \in Nat /\ k <= Len(queue)
    OBVIOUS
  <2>3. \A i \in 1..Len(queue) : queue[i] \in Q!Entry
    OBVIOUS
  <2>4. /\ SubSeq(queue, 1, k) \in Seq(Q!Entry)
        /\ \A i \in 1..Len(SubSeq(queue, 1, k)) :
             i \in 1..Len(queue) /\ SubSeq(queue, 1, k)[i] = queue[i]
    BY <2>2, <2>3, SubSeqProperties
  <2>5. /\ queue' \in Seq(Q!Entry)
        /\ Len(queue') = IF k + 1 <= Len(queue) THEN Len(queue) - k ELSE 0
        /\ \A i \in 1..Len(queue) - k : queue'[i] = queue[k + i]
    BY <2>1, <2>2, <2>3, SubSeqProperties
  <2>6. batch' \in [{Worker} -> Seq(Q!Entry)] /\ batch'[Worker] = SubSeq(queue, 1, k)
    BY <2>1, <2>4
  <2> HIDE DEF k
  <2>7. \A i \in 1..Len(queue') : \E j \in 1..Len(queue) : queue'[i] = queue[j]
    <3> SUFFICES ASSUME NEW i \in 1..Len(queue')
                 PROVE  \E j \in 1..Len(queue) : queue'[i] = queue[j]
      OBVIOUS
    <3>1. k + i \in 1..Len(queue) /\ queue'[i] = queue[k + i]
      BY <2>2, <2>5
    <3> QED
      BY <3>1
  <2>8. Q!NotifyAfter(m) \in {"notifyFullOne", "notifyFullAll"}
    BY DEF Q!NotifyAfter
  <2> QED
    BY <1>2, <2>1, <2>4, <2>5, <2>6, <2>7, <2>8 DEF Takes
<1> QED
  BY <1>3, <1>4

--------------------------------------------------------------------------------
(* Types *)

(* The calls that the Logger makes on queue_, and the steps they take      *)
QueueNext ==
  \/ \E p \in Producers :
       Q!GetGeneration(p) \/ Q!Push(p, record[p]) \/ Q!ProducerStep(p)
  \/ \E m \in {"popBatchFor", "popBatch"}, n \in Nat \ {0} : Q!Pop(Worker, m, n)
  \/ Q!ConsumerStep(Worker) \/ Q!PopTimeout(Worker)
  \/ \E t \in Q!Threads : Q!Close(t) \/ Q!CloseNotify(t) \/ Q!SpuriousWake(t)
  \/ \E k \in Controllers, cf \in Configs :
       Q!Reset(k, cf.queueCapacity, cf.overflowPolicy)
  \/ UNCHANGED queueVars

(* The settings in a configuration have the types of LoggerConfig.         *)
LEMMA ConfigType ==
  ASSUME NEW cf \in Configs
  PROVE  /\ cf.queueCapacity \in Nat /\ cf.writeBatchSize \in Nat
         /\ cf.minLevel \in Levels /\ cf.sinks \in Nat
         /\ cf.overflowPolicy \in {"Block", "DropNewest", "DropOldest"}
         /\ cf.flushPolicy \in FlushPolicies /\ cf.flushAtOrAbove \in Nat
BY LoggerAssumption DEF LoggerConfig

(* The Logger uses the queue in no other way.                              *)
LEMMA NextQueue ==
  ASSUME TypeOK, [Next]_vars
  PROVE  QueueNext
<1>1. CASE UNCHANGED queueVars
  BY <1>1 DEF QueueNext
<1>2. ASSUME NEW p \in Producers, ProducerStep(p) PROVE QueueNext
  BY <1>1, <1>2
  DEF ProducerStep, LogStatic, Capture, PushRecord, ProducerQueueStep, QueueNext
<1>3. ASSUME NEW p \in Producers, NEW level \in Levels,
             ShouldLog(p, level) \/ Log(p, level)
      PROVE  QueueNext
  BY <1>1, <1>3 DEF ShouldLog, Log, Capture, QueueNext
<1>4. ASSUME NEW level \in Levels, SetLevel(level) PROVE QueueNext
  BY <1>1, <1>4 DEF SetLevel
<1>5. CASE WorkerStep
  <2>1. Worker \in Q!Threads
    BY DEF Q!Threads
  <2>2. CASE WorkerPop
    <3>1. config.writeBatchSize \in Nat
      BY ConfigType DEF TypeOK
    <3>2. config.writeBatchSize > 0
      BY <2>2 DEF WorkerPop, Q!Pop
    <3>3. Q!Pop(Worker, IF Periodic THEN "popBatchFor" ELSE "popBatch",
                config.writeBatchSize)
      BY <2>2 DEF WorkerPop
    <3> QED
      BY <3>1, <3>2, <3>3 DEF QueueNext
  <2>3. CASE WorkerQueueStep \/ WorkerCloses
    BY <2>1, <2>3 DEF WorkerQueueStep, WorkerCloses, QueueNext
  <2>4. CASE WorkerStart \/ WriteBatch \/ FlushAfterBatch \/ NoBatch \/ CheckClosed
             \/ WorkerFails \/ FinalFlush
    BY <1>1, <2>4
    DEF WorkerStart, WriteBatch, FlushAfterBatch, NoBatch, CheckClosed,
        WorkerFails, FinalFlush, GoOn, OnlyWorker
  <2> QED
    BY <1>5, <2>2, <2>3, <2>4 DEF WorkerStep
<1>6. CASE WorkerTimeout \/ Tick
  BY <1>1, <1>6 DEF WorkerTimeout, Tick, QueueNext
<1>7. ASSUME NEW k \in Controllers, Stop(k) \/ ControlStep(k) PROVE QueueNext
  <2>1. k \in Q!Threads /\ request[k] \in Configs
    BY DEF Q!Threads, TypeOK
  <2>2. CASE InitReset(k)
    BY <2>1, <2>2 DEF InitReset, QueueNext
  <2>3. CASE InitAbort(k) \/ StopClose(k)
    BY <2>1, <2>3 DEF InitAbort, StopClose, QueueNext
  <2>4. CASE Stop(k) \/ InitJoin(k) \/ InitConfigure(k) \/ InitSpawn(k)
             \/ InitAborted(k) \/ StopJoin(k)
    BY <1>1, <2>4 DEF Stop, InitJoin, InitConfigure, InitSpawn, InitAborted, StopJoin
  <2> QED
    BY <1>7, <2>2, <2>3, <2>4 DEF ControlStep
<1>8. ASSUME NEW k \in Controllers, NEW cf \in Configs, InitCall(k, cf)
      PROVE  QueueNext
  BY <1>1, <1>8 DEF InitCall
<1>9. ASSUME NEW t \in Q!Threads, CloseNotify(t) \/ SpuriousWake(t) PROVE QueueNext
  BY <1>9 DEF CloseNotify, SpuriousWake, QueueNext
<1>10. CASE UNCHANGED vars
  BY <1>1, <1>10 DEF vars
<1> QED
  BY <1>2, <1>3, <1>4, <1>5, <1>6, <1>7, <1>8, <1>9, <1>10 DEF Next

(* The queue's variables keep their types in all of those calls.           *)
LEMMA QueueType ==
  ASSUME TypeOK, QueueNext
  PROVE  Q!TypeOK'
<1> USE DEF Q!TypeOK
<1> Q!TypeOK /\ record \in [Producers -> LogRecord]
  BY DEF TypeOK
<1>1. ASSUME NEW t \in Q!Threads, OnlyMoves(t)
      PROVE  pc' \in [Q!Threads -> Q!States] /\ result' \in [Q!Threads -> Q!Results]
  BY <1>1 DEF OnlyMoves
<1>2. ASSUME NEW p \in Producers,
             Q!GetGeneration(p) \/ Q!Push(p, record[p]) \/ Q!ProducerStep(p)
      PROVE  Q!TypeOK'
  <2>1. p \in Q!Threads
    BY DEF Q!Threads
  <2>2. CASE Q!GetGeneration(p)
    BY <2>2 DEF Q!GetGeneration, Q!members
  <2>3. ASSUME Pushes(p, value'[p], expected[p]), value' \in [Producers -> LogRecord],
               UNCHANGED <<expected, method, maxCount, batch>>
        PROVE  Q!TypeOK'
    BY <1>1, <2>1, <2>3 DEF Pushes
  <2>4. CASE Q!Push(p, record[p])
    BY <2>3, <2>4, PushDoes DEF Q!Push
  <2>5. CASE Q!PushWake(p)
    BY <2>3, <2>5, PushDoes DEF Q!PushWake
  <2>6. CASE Q!PushNotify(p)
    BY <2>6
    DEF Q!PushNotify, Q!NotifyOne, Q!members, Q!States, Q!NotEmptyStates
  <2> QED
    BY <1>2, <2>2, <2>4, <2>5, <2>6 DEF Q!ProducerStep
<1>3. ASSUME UNCHANGED <<expected, value>>,
             method' \in [{Worker} -> Q!PopMethods],
             maxCount' \in [{Worker} -> Nat \ {0}],
             Takes(Worker) \/ Q!ParkOnNotEmpty(Worker)
      PROVE  Q!TypeOK'
  <2>1. Worker \in Q!Threads
    BY DEF Q!Threads
  <2>2. CASE Takes(Worker)
    BY <1>1, <1>3, <2>1, <2>2 DEF Takes
  <2>3. CASE Q!ParkOnNotEmpty(Worker)
    BY <1>3, <2>1, <2>3
    DEF Q!ParkOnNotEmpty, Q!Finish, Q!members, Q!States, Q!NotEmptyStates, Q!Results
  <2> QED
    BY <1>3, <2>2, <2>3
<1>4. ASSUME NEW m \in {"popBatchFor", "popBatch"}, NEW n \in Nat \ {0},
             Q!Pop(Worker, m, n)
      PROVE  Q!TypeOK'
  BY <1>3, <1>4, TakeDoes DEF Q!Pop, Q!PopMethods
<1>5. CASE Q!PopWake(Worker)
  BY <1>3, <1>5, TakeDoes DEF Q!PopWake
<1>6. CASE Q!PopTimedOut(Worker)
  <2>1. CASE Q!TakeLocked(Worker, method[Worker], maxCount[Worker])
    BY <1>3, <1>6, <2>1, TakeDoes DEF Q!PopTimedOut
  <2>2. CASE Q!Finish(Worker, "idle", "noValues") /\ UNCHANGED <<Q!members, batch>>
    BY <1>6, <2>2
    DEF Q!PopTimedOut, Q!Finish, Q!members, Q!States, Q!Results
  <2> QED
    BY <1>6, <2>1, <2>2 DEF Q!PopTimedOut
<1>7. CASE Q!PopNotify(Worker) \/ Q!PopTimeout(Worker)
  BY <1>7
  DEF Q!PopNotify, Q!PopTimeout, Q!NotifyOne, Q!NotifyAll, Q!members, Q!States,
      Q!NotFullStates, Q!NotEmptyStates
<1>8. ASSUME NEW t \in Q!Threads, Q!Close(t) PROVE Q!TypeOK'
  BY <1>8 DEF Q!Close, Q!States
<1>9. ASSUME NEW t \in Q!Threads, Q!CloseNotify(t) \/ Q!SpuriousWake(t)
      PROVE  Q!TypeOK'
  BY <1>9
  DEF Q!CloseNotify, Q!SpuriousWake, Q!NotifyAll, Q!members, Q!States,
      Q!NotFullStates, Q!NotEmptyStates
<1>10. ASSUME NEW k \in Controllers, NEW cf \in Configs,
              Q!Reset(k, cf.queueCapacity, cf.overflowPolicy)
       PROVE  Q!TypeOK'
  <2>1. pc' \in [Q!Threads -> Q!States]
    BY <1>10 DEF Q!Reset, Q!WakeEverybody, Q!States, Q!NotFullStates, Q!NotEmptyStates
  <2>2. capacity' \in Nat \ {0} /\ overflowPolicy' \in Q!OverflowPolicies
    BY <1>10, ConfigType DEF Q!Reset, Q!CapacityFor, Q!OverflowPolicies
  <2>3. queue' \in Seq(Q!Entry) /\ generation' \in Nat
    BY <1>10 DEF Q!Reset
  <2>4. closed' \in BOOLEAN
    BY <1>10 DEF Q!Reset
  <2> QED
    BY <1>10, <2>1, <2>2, <2>3, <2>4 DEF Q!Reset
<1>11. CASE UNCHANGED queueVars
  BY <1>11 DEF queueVars
<1> QED
  BY <1>2, <1>4, <1>5, <1>6, <1>7, <1>8, <1>9, <1>10, <1>11
  DEF QueueNext, Q!ConsumerStep

(* A new record carries the generation, which its type bounds: TypeOK      *)
(* needs to know that init() has made sure of room for one more.           *)
GenerationsBounded ==
  /\ generation <= MaxInits
  /\ \A k \in Controllers :
       control[k] \in {"initJoin", "initReset"} => generation < MaxInits

TypeInv == TypeOK /\ GenerationsBounded

(* What a producer leaves alone: everything but the queue's contents and   *)
(* its own call.                                                           *)
LEMMA ProducerFrame ==
  ASSUME Q!TypeOK, record \in [Producers -> LogRecord], NEW p \in Producers,
         ProducerStep(p) \/ \E level \in Levels : ShouldLog(p, level) \/ Log(p, level)
  PROVE  UNCHANGED <<settingVars, sinkVars, workerVars, controlVars, closed,
                     generation, method, maxCount, batch>>
<1>1. ASSUME NEW number, NEW level, Capture(p, number, level)
      PROVE  UNCHANGED <<settingVars, sinkVars, workerVars, controlVars, closed,
                         generation, method, maxCount, batch>>
  BY <1>1 DEF Capture, OnlyProducer, queueVars, Q!GetGeneration, Q!members
<1>2. CASE LogStatic(p) \/ \E level \in Levels : Log(p, level)
  BY <1>1, <1>2 DEF LogStatic, Log
<1>3. ASSUME NEW level \in Levels, ShouldLog(p, level)
      PROVE  UNCHANGED <<settingVars, sinkVars, workerVars, controlVars, closed,
                         generation, method, maxCount, batch>>
  BY <1>3 DEF ShouldLog, OnlyProducer, queueVars
<1>4. CASE PushRecord(p)
  BY <1>4, PushDoes DEF PushRecord, OnlyProducer, Q!Push, Q!TypeOK, Pushes
<1>5. CASE ProducerQueueStep(p)
  <2>1. CASE Q!PushWake(p)
    BY <1>5, <2>1, PushDoes
    DEF ProducerQueueStep, OnlyProducer, Q!PushWake, Q!TypeOK, Pushes
  <2>2. CASE Q!PushNotify(p)
    BY <1>5, <2>2 DEF ProducerQueueStep, OnlyProducer, Q!PushNotify, Q!members
  <2> QED
    BY <1>5, <2>1, <2>2 DEF ProducerQueueStep, Q!ProducerStep
<1> QED
  BY <1>2, <1>3, <1>4, <1>5 DEF ProducerStep

(* What the worker leaves alone: the callers, and what init() sets up      *)
LEMMA WorkerFrame ==
  ASSUME Q!TypeOK, WorkerStep \/ WorkerTimeout \/ Tick
  PROVE  UNCHANGED <<minLevel, config, sinksOpen, producerVars, controlVars,
                     generation, expected, value>>
<1>1. CASE WorkerPop
  <2>1. Q!Pop(Worker, IF Periodic THEN "popBatchFor" ELSE "popBatch",
              config.writeBatchSize)
    BY <1>1 DEF WorkerPop
  <2>2. generation' = generation
    BY <2>1 DEF Q!Pop, Q!TakeLocked, Q!ParkOnNotEmpty, Q!members
  <2> QED
    BY <1>1, <2>1, <2>2 DEF WorkerPop, settingVars, sinkVars, Q!Pop
<1>2. CASE WorkerQueueStep
  <2>1. Q!ConsumerStep(Worker) /\ OnlyQueue
    BY <1>2 DEF WorkerQueueStep
  <2>2. UNCHANGED <<expected, value, generation>>
    BY <2>1
    DEF Q!ConsumerStep, Q!PopWake, Q!PopTimedOut, Q!PopNotify, Q!TakeLocked,
        Q!ParkOnNotEmpty, Q!members
  <2> QED
    BY <2>1, <2>2 DEF OnlyQueue, settingVars, sinkVars
<1>3. CASE WorkerTimeout
  BY <1>3 DEF WorkerTimeout, Q!PopTimeout, Q!members, OnlyQueue, settingVars, sinkVars
<1>4. CASE WorkerCloses
  BY <1>4 DEF WorkerCloses, Q!Close, settingVars, sinkVars
<1>5. CASE Tick
  BY <1>5 DEF Tick, queueVars, settingVars, sinkVars
<1>6. CASE WorkerStart \/ WriteBatch \/ FlushAfterBatch \/ NoBatch \/ CheckClosed
           \/ WorkerFails \/ FinalFlush
  BY <1>6
  DEF WorkerStart, WriteBatch, FlushAfterBatch, NoBatch, CheckClosed, WorkerFails,
      FinalFlush, GoOn, OnlyWorker, queueVars
<1> QED
  BY <1>1, <1>2, <1>3, <1>4, <1>5, <1>6 DEF WorkerStep

(* What init() and stop() leave alone: the callers of log().               *)
LEMMA ControlFrame ==
  ASSUME NEW k \in Controllers,
         \/ Stop(k) \/ ControlStep(k)
         \/ \E cf \in Configs : InitCall(k, cf)
  PROVE  /\ UNCHANGED <<logging, record, calls, expected, value>>
         /\ accepted' \in {accepted, <<>>}
BY DEF Stop, InitCall, ControlStep, InitJoin, InitReset, InitConfigure, InitSpawn,
       InitAbort, InitAborted, StopClose, StopJoin, producerVars, queueVars, Q!Reset,
       Q!Close

(* The parts of TypeOK, so that a step need only look at those it changes  *)
SettingTypes == running \in BOOLEAN /\ minLevel \in Levels /\ config \in Configs
SinkTypes ==
  /\ sinksOpen \in BOOLEAN
  /\ \A i \in DOMAIN written : written[i] \in Seq(Q!Entry)
  /\ DOMAIN flushed = DOMAIN written
  /\ \A i \in DOMAIN written : flushed[i] \in 0..Len(written[i])
  /\ fault \in {"none", "write", "flush"}
WorkerTypes == flushDue \in BOOLEAN /\ worker \in WorkerStates
ProducerTypes ==
  /\ logging \in [Producers -> {"idle", "admitted", "captured"}]
  /\ record \in [Producers -> LogRecord]
  /\ calls \in [Producers -> 0..MaxCalls]
  /\ accepted \in Seq(Q!Entry)
ControlTypes ==
  /\ control \in [Controllers -> ControlStates]
  /\ request \in [Controllers -> Configs]
  /\ returned \in [Controllers -> {"none", "true", "false"}]
  /\ \A k \in Controllers : control[k] # "idle" <=> lifecycleOwner = k
  /\ GenerationsBounded

(* The parts make up the invariant.                                        *)
LEMMA TypeParts ==
  TypeInv <=> /\ Q!TypeOK /\ SettingTypes /\ SinkTypes /\ WorkerTypes
              /\ ProducerTypes /\ ControlTypes
BY DEF TypeInv, TypeOK, SettingTypes, SinkTypes, WorkerTypes, ProducerTypes, ControlTypes

(* A call returns and releases the lock, or goes on under it.              *)
LEMMA ControlMoves ==
  ASSUME Q!TypeOK, ControlTypes, NEW k \in Controllers, control[k] # "idle",
         NEW s \in ControlStates, s \notin {"idle", "initJoin", "initReset"},
         NEW r \in {"none", "true", "false"},
         Return(k, r) \/ Go(k, s), generation' = generation
  PROVE  ControlTypes'
<1>1. ControlTypes /\ lifecycleOwner = k /\ Nobody \notin Controllers
  BY LoggerAssumption DEF ControlTypes
<1>2. CASE Return(k, r)
  BY <1>1, <1>2 DEF ControlTypes, GenerationsBounded, Return, ControlStates
<1>3. CASE Go(k, s)
  BY <1>1, <1>3 DEF ControlTypes, GenerationsBounded, Go
<1> QED
  BY <1>2, <1>3

(* Writing to the sinks extends what they have got.                        *)
LEMMA WriteTypes ==
  ASSUME SinkTypes, NEW more, \A i \in DOMAIN written : more[i] \in Seq(Q!Entry),
         written' = [i \in DOMAIN written |-> written[i] \o more[i]],
         UNCHANGED <<sinksOpen, flushed>>, fault' \in {"none", "write", "flush"}
  PROVE  SinkTypes'
<1> USE DEF SinkTypes
<1>1. DOMAIN written' = DOMAIN written
  OBVIOUS
<1>2. ASSUME NEW i \in DOMAIN written
      PROVE  /\ written'[i] \in Seq(Q!Entry)
             /\ Len(written'[i]) = Len(written[i]) + Len(more[i])
             /\ Len(more[i]) \in Nat /\ Len(written[i]) \in Nat
    BY ConcatProperties, LenProperties
<1>3. \A i \in DOMAIN written : flushed[i] \in 0..Len(written'[i])
  BY <1>2
<1> QED
  BY <1>1, <1>2, <1>3

(* A flush leaves no more flushed than written.                            *)
LEMMA FlushTypes ==
  ASSUME SinkTypes, NEW next, NEW afterThrow, FlushSinks(next, afterThrow),
         sinksOpen' = sinksOpen
  PROVE  SinkTypes' /\ worker' \in {next, afterThrow}
<1> USE DEF SinkTypes
<1>1. \A i \in DOMAIN written : Len(written[i]) \in 0..Len(written[i])
  BY LenProperties
<1>2. /\ UNCHANGED <<written, sinksOpen>>
      /\ fault' \in {"none", "write", "flush"} /\ worker' \in {next, afterThrow}
  BY DEF FlushSinks
<1>3. /\ DOMAIN flushed' = DOMAIN written
      /\ \A i \in DOMAIN written : flushed'[i] \in {Len(written[i]), flushed[i]}
  BY DEF FlushSinks
<1> QED
  BY <1>1, <1>2, <1>3

(* A producer's steps keep its own variables well typed.                   *)
LEMMA ProducerStepTypes ==
  ASSUME TypeInv, TypeInv => Q!TypeOK', NEW p \in Producers,
         ProducerStep(p) \/ \E level \in Levels : ShouldLog(p, level) \/ Log(p, level)
  PROVE  ProducerTypes'
<1>a. Q!TypeOK'
  OBVIOUS
<1>b. ProducerTypes
  BY DEF TypeInv, TypeOK, ProducerTypes
<1>c. generation \in 0..MaxInits
  <2>1. generation \in Nat
    BY DEF TypeInv, TypeOK, Q!TypeOK
  <2>2. generation <= MaxInits /\ MaxInits \in Nat
    BY LoggerAssumption DEF TypeInv, GenerationsBounded
  <2> QED
    BY <2>1, <2>2
<1> Q!TypeOK' /\ ProducerTypes /\ generation \in 0..MaxInits
  BY <1>a, <1>b, <1>c
<1> USE DEF ProducerTypes
<1>1. ASSUME NEW number \in 1..MaxCalls, NEW level \in Levels,
             Capture(p, number, level)
      PROVE  /\ logging' \in [Producers -> {"idle", "admitted", "captured"}]
             /\ record' \in [Producers -> LogRecord]
             /\ accepted' = accepted
  <2> DEFINE new == [by |-> p, number |-> number, level |-> level,
                     lifecycle |-> generation]
  <2>1. new \in LogRecord
    BY DEF LogRecord
  <2>2. record' = [record EXCEPT ![p] = new] \/ record' = record
    BY <1>1 DEF Capture
  <2> HIDE DEF new
  <2>3. record' \in [Producers -> LogRecord]
    BY <2>1, <2>2
  <2> QED
    BY <1>1, <2>3 DEF Capture
<1>2. ASSUME calls[p] < MaxCalls, calls' = [calls EXCEPT ![p] = @ + 1]
      PROVE  calls'[p] \in 1..MaxCalls /\ calls' \in [Producers -> 0..MaxCalls]
  BY <1>2, LoggerAssumption
<1>3. ASSUME NEW level \in Levels, ShouldLog(p, level) PROVE ProducerTypes'
  <2>1. calls'[p] \in 1..MaxCalls /\ calls' \in [Producers -> 0..MaxCalls]
    BY <1>2, <1>3 DEF ShouldLog
  <2>2. record' \in [Producers -> LogRecord]
    <3> DEFINE new == [record[p] EXCEPT !.number = calls'[p], !.level = level]
    <3>1. new \in LogRecord
      <4>1. ASSUME NEW r \in LogRecord, NEW n \in 1..MaxCalls
            PROVE  [r EXCEPT !.number = n, !.level = level] \in LogRecord
        BY DEF LogRecord
      <4>2. record[p] \in LogRecord
        OBVIOUS
      <4> QED
        BY <2>1, <4>1, <4>2, Zenon
    <3>2. \/ record' = record
          \/ record' = [record EXCEPT ![p].number = calls'[p], ![p].level = level]
      BY <1>3 DEF ShouldLog
    <3>3. record' = record \/ record' = [record EXCEPT ![p] = new]
      BY <3>2
    <3> HIDE DEF new
    <3> QED
      BY <3>1, <3>3
  <2> QED
    BY <1>3, <2>1, <2>2 DEF ShouldLog
<1>4. ASSUME NEW level \in Levels, Log(p, level) PROVE ProducerTypes'
  BY <1>1, <1>2, <1>4 DEF Log
<1>5. CASE LogStatic(p)
  <2>1. record[p].number \in 1..MaxCalls /\ record[p].level \in Levels
    BY DEF LogRecord
  <2> QED
    BY <1>1, <1>5, <2>1 DEF LogStatic
<1>6. ASSUME queue' # <<>> \/ accepted' = accepted, Accept(p)
      PROVE  accepted' \in Seq(Q!Entry)
  <2>1. queue' # <<>> => queue'[Len(queue')] \in Q!Entry
    BY DEF Q!TypeOK
  <2> QED
    BY <1>6, <2>1 DEF Accept
<1>7. ASSUME Pushes(p, value'[p], expected[p]), Accept(p)
      PROVE  accepted' \in Seq(Q!Entry)
  BY <1>6, <1>7 DEF Pushes, Accept
<1>8. CASE PushRecord(p)
  <2>1. Pushes(p, value'[p], expected[p])
    BY <1>8, PushDoes DEF PushRecord, Q!Push, TypeInv, TypeOK, Q!TypeOK
  <2> QED
    BY <1>7, <1>8, <2>1 DEF PushRecord
<1>9. CASE ProducerQueueStep(p)
  <2>1. CASE pc[p] = "notFullWoken"
    <3>1. Pushes(p, value'[p], expected[p])
      BY <1>9, <2>1, PushDoes
      DEF ProducerQueueStep, Q!ProducerStep, Q!PushWake, Q!PushNotify, TypeInv,
          TypeOK, Q!TypeOK
    <3> QED
      BY <1>7, <1>9, <2>1, <3>1 DEF ProducerQueueStep
  <2> QED
    BY <1>9, <2>1 DEF ProducerQueueStep
<1> QED
  BY <1>3, <1>4, <1>5, <1>8, <1>9 DEF ProducerStep

(* The worker's steps keep its own and the sinks' variables well typed.    *)
LEMMA WorkerStepTypes ==
  ASSUME TypeInv, WorkerStep \/ WorkerTimeout \/ Tick
  PROVE  SettingTypes' /\ SinkTypes' /\ WorkerTypes'
<1> Q!TypeOK /\ SettingTypes /\ SinkTypes /\ WorkerTypes
  BY TypeParts
<1> USE DEF SettingTypes, WorkerTypes, WorkerStates
<1>1. /\ UNCHANGED <<minLevel, config, sinksOpen>>
      /\ batch[Worker] \in Seq(Q!Entry)
  BY WorkerFrame DEF TypeInv, TypeOK, Q!TypeOK
<1>2. ASSUME UNCHANGED <<written, flushed, fault>> PROVE SinkTypes'
  BY <1>1, <1>2 DEF SinkTypes
<1>3. ASSUME UNCHANGED <<written, flushed>>, fault' = "write" PROVE SinkTypes'
  BY <1>1, <1>3 DEF SinkTypes
<1>4. CASE WorkerStart
  BY <1>1, <1>2, <1>3, <1>4 DEF WorkerStart, GoOn
<1>5. CASE WorkerPop \/ WorkerQueueStep \/ WorkerTimeout \/ Tick
  BY <1>1, <1>2, <1>5
  DEF WorkerPop, WorkerQueueStep, WorkerTimeout, Tick, OnlyQueue, settingVars,
      sinkVars, workerVars
<1>6. CASE WriteBatch
  <2>1. UNCHANGED <<running, flushDue>> /\ worker' \in {"written", "failing"}
    BY <1>6 DEF WriteBatch
  <2>2. CASE /\ written' = [i \in DOMAIN written |-> written[i] \o batch[Worker]]
             /\ fault' = fault
    <3> DEFINE more == [i \in DOMAIN written |-> batch[Worker]]
    <3>1. /\ written' = [i \in DOMAIN written |-> written[i] \o more[i]]
          /\ \A i \in DOMAIN written : more[i] \in Seq(Q!Entry)
      BY <1>1, <2>2
    <3>2. fault' \in {"none", "write", "flush"} /\ UNCHANGED <<sinksOpen, flushed>>
      BY <1>1, <1>6, <2>2 DEF SinkTypes, WriteBatch
    <3> HIDE DEF more
    <3> QED
      BY <1>1, <2>1, <3>1, <3>2, WriteTypes
  <2>3. ASSUME NEW bad \in DOMAIN written, NEW n \in 0..Len(batch[Worker]),
               written' = WrittenUntil(bad, n), fault' = "write"
        PROVE  SinkTypes'
    <3> DEFINE more == [i \in DOMAIN written |->
                          IF i < bad THEN batch[Worker]
                          ELSE IF i = bad THEN SubSeq(batch[Worker], 1, n)
                          ELSE <<>>]
    <3>1. SubSeq(batch[Worker], 1, n) \in Seq(Q!Entry)
      BY <1>1, SubSeqProperties
    <3>2. /\ written' = [i \in DOMAIN written |-> written[i] \o more[i]]
          /\ \A i \in DOMAIN written : more[i] \in Seq(Q!Entry)
      BY <1>1, <2>3, <3>1 DEF WrittenUntil
    <3>3. UNCHANGED <<sinksOpen, flushed>>
      BY <1>1, <1>6 DEF WriteBatch
    <3> HIDE DEF more
    <3> QED
      BY <2>3, <3>2, <3>3, WriteTypes
  <2> QED
    BY <1>1, <1>6, <2>1, <2>2, <2>3 DEF WriteBatch
<1>7. CASE FlushAfterBatch
  BY <1>1, <1>2, <1>7, FlushTypes DEF FlushAfterBatch, GoOn, NextRound
<1>8. CASE NoBatch
  BY <1>1, <1>2, <1>8, FlushTypes DEF NoBatch, GoOn
<1>9. CASE CheckClosed \/ WorkerFails \/ WorkerCloses
  BY <1>1, <1>2, <1>9
  DEF CheckClosed, WorkerFails, WorkerCloses, GoOn, AfterNoBatch, AfterFault,
      AfterClose, settingVars, sinkVars
<1>10. CASE FinalFlush
  BY <1>1, <1>10, FlushTypes DEF FinalFlush
<1> QED
  BY <1>4, <1>5, <1>6, <1>7, <1>8, <1>9, <1>10 DEF WorkerStep

(* So do init() and stop(), which have the lifecycle lock to themselves.   *)
LEMMA ControlStepTypes ==
  ASSUME TypeInv, NEW k \in Controllers,
         \/ Stop(k) \/ ControlStep(k)
         \/ \E cf \in Configs : InitCall(k, cf)
  PROVE  SettingTypes' /\ SinkTypes' /\ WorkerTypes' /\ ControlTypes'
<1> /\ Q!TypeOK /\ SettingTypes /\ SinkTypes /\ WorkerTypes /\ ControlTypes
    /\ Nobody \notin Controllers
  BY TypeParts, LoggerAssumption
<1> USE DEF SettingTypes, WorkerTypes, WorkerStates
<1>1. request[k] \in Configs /\ request[k].minLevel \in Levels
  BY ConfigType DEF ControlTypes
<1>2. ASSUME UNCHANGED <<written, flushed, fault>>, sinksOpen' \in BOOLEAN
      PROVE  SinkTypes'
  BY <1>2 DEF SinkTypes
<1>3. ASSUME generation' = generation, control[k] # "idle", NEW r \in {"none", "true", "false"},
             NEW s \in {"initConfigure", "initSpawn", "initAbort", "initAborting", "stopClose", "stopJoin"},
             Return(k, r) \/ Go(k, s)
      PROVE  ControlTypes'
  BY <1>3, ControlMoves DEF ControlStates
<1>4. ASSUME UNCHANGED settingVars PROVE SettingTypes'
  BY <1>4 DEF settingVars
<1>5. ASSUME UNCHANGED sinkVars PROVE SinkTypes'
  BY <1>5 DEF sinkVars, SinkTypes
<1>6. ASSUME UNCHANGED workerVars PROVE WorkerTypes'
  BY <1>6 DEF workerVars
<1>7. ASSUME NEW cf \in Configs, InitCall(k, cf)
      PROVE  SettingTypes' /\ SinkTypes' /\ WorkerTypes' /\ ControlTypes'
  <2>1. ControlTypes'
    BY <1>7
    DEF InitCall, ControlTypes, GenerationsBounded, ControlStates, queueVars
  <2> QED
    BY <1>7, <1>4, <1>5, <1>6, <2>1 DEF InitCall
<1>8. CASE Stop(k)
  <2>1. ControlTypes'
    BY <1>8 DEF Stop, ControlTypes, GenerationsBounded, ControlStates, queueVars
  <2>2. SettingTypes'
    BY <1>8 DEF Stop
  <2> QED
    BY <1>8, <1>5, <1>6, <2>1, <2>2 DEF Stop
<1>9. CASE InitJoin(k)
  <2>1. ControlTypes'
    <3>1. CASE Go(k, "initReset")
      BY <1>9, <3>1
      DEF InitJoin, Go, ControlTypes, GenerationsBounded, ControlStates, queueVars
    <3>2. CASE Return(k, "false")
      BY <1>3, <1>9, <3>2 DEF InitJoin, queueVars
    <3> QED
      BY <1>9, <3>1, <3>2 DEF InitJoin
  <2>2. sinksOpen' \in BOOLEAN /\ UNCHANGED <<written, flushed, fault>>
    BY <1>9 DEF InitJoin
  <2>3. WorkerTypes'
    BY <1>9 DEF InitJoin, JoinWorker
  <2> QED
    BY <1>2, <1>9, <1>4, <2>1, <2>2, <2>3 DEF InitJoin
<1>10. CASE InitReset(k)
  <2>1. generation' = generation + 1 /\ generation \in Nat /\ MaxInits \in Nat
    BY <1>10, LoggerAssumption DEF InitReset, Q!Reset, Q!TypeOK
  <2>2. control[k] = "initReset" /\ Go(k, "initConfigure")
    BY <1>10 DEF InitReset
  <2>3. ControlTypes'
    <3>1. /\ generation < MaxInits
          /\ \A j \in Controllers : control[j] # "idle" => j = k
      BY <2>2 DEF ControlTypes, GenerationsBounded
    <3>2. \A j \in Controllers : control'[j] \notin {"initJoin", "initReset"}
      BY <2>2, <3>1 DEF Go, ControlTypes
    <3>3. GenerationsBounded'
      BY <2>1, <3>1, <3>2 DEF GenerationsBounded
    <3> QED
      BY <2>2, <3>3 DEF Go, ControlTypes, ControlStates
  <2>4. SinkTypes'
    <3> DEFINE n == request[k].sinks
    <3>1. written' = [i \in 1..n |-> <<>>] /\ flushed' = [i \in 1..n |-> 0]
      BY <1>10 DEF InitReset
    <3>2. fault' = "none" /\ sinksOpen' = sinksOpen
      BY <1>10 DEF InitReset
    <3> HIDE DEF n
    <3> QED
      BY <3>1, <3>2 DEF SinkTypes
  <2> QED
    BY <1>10, <1>4, <1>6, <2>3, <2>4 DEF InitReset
<1>11. CASE InitConfigure(k)
  <2>1. ControlTypes'
    BY <1>3, <1>11 DEF InitConfigure, queueVars
  <2>2. sinksOpen' \in BOOLEAN /\ UNCHANGED <<written, flushed, fault>>
    BY <1>11 DEF InitConfigure
  <2>3. SettingTypes'
    BY <1>1, <1>11 DEF InitConfigure
  <2> QED
    BY <1>2, <1>11, <1>6, <2>1, <2>2, <2>3 DEF InitConfigure
<1>12. CASE InitSpawn(k)
  <2>1. ControlTypes'
    BY <1>3, <1>12 DEF InitSpawn, queueVars
  <2>2. SettingTypes'
    BY <1>12 DEF InitSpawn
  <2>3. WorkerTypes'
    BY <1>12, <1>6 DEF InitSpawn
  <2> QED
    BY <1>12, <1>5, <2>1, <2>2, <2>3 DEF InitSpawn
<1>13. CASE InitAbort(k)
  <2>1. ControlTypes'
    BY <1>3, <1>13 DEF InitAbort, Q!Close
  <2> QED
    BY <1>13, <1>4, <1>5, <1>6, <2>1 DEF InitAbort
<1>14. CASE InitAborted(k) \/ StopJoin(k)
  <2>1. ControlTypes'
    BY <1>3, <1>14 DEF InitAborted, StopJoin, queueVars
  <2>2. sinksOpen' \in BOOLEAN /\ UNCHANGED <<written, flushed, fault>>
    BY <1>14 DEF InitAborted, StopJoin
  <2>3. WorkerTypes'
    BY <1>14, <1>6 DEF InitAborted, StopJoin, JoinWorker
  <2> QED
    BY <1>2, <1>14, <1>4, <2>1, <2>2, <2>3 DEF InitAborted, StopJoin
<1>15. CASE StopClose(k)
  <2>1. ControlTypes'
    BY <1>3, <1>15 DEF StopClose, Q!Close
  <2> QED
    BY <1>15, <1>4, <1>5, <1>6, <2>1 DEF StopClose
<1> QED
  BY <1>7, <1>8, <1>9, <1>10, <1>11, <1>12, <1>13, <1>14, <1>15 DEF ControlStep

(* Init gives every variable a value of its type.                          *)
LEMMA InitTypes == Init => TypeInv
<1> SUFFICES ASSUME Init PROVE TypeInv
  OBVIOUS
<1>1. /\ config \in Configs /\ Nobody \notin Controllers
      /\ 0 \in Levels /\ MaxCalls \in Nat \ {0} /\ MaxInits \in Nat
      /\ SizeMax \in Nat \ {0}
  BY LoggerAssumption DEF Init
<1>2. value \in [Producers -> LogRecord]
  BY <1>1 DEF Init, LogRecord
<1>3. Q!TypeOK
  <2>1. /\ queue \in Seq(Q!Entry) /\ batch \in [{Worker} -> Seq(Q!Entry)]
        /\ capacity \in Nat \ {0} /\ overflowPolicy \in Q!OverflowPolicies
        /\ highWaterMark \in Nat /\ droppedCount \in Nat /\ generation \in Nat
    BY <1>1 DEF Init, Q!Init, Q!OverflowPolicies
  <2>2. closed \in BOOLEAN
    BY DEF Init, Q!Init
  <2>3. /\ pc \in [Q!Threads -> Q!States] /\ result \in [Q!Threads -> Q!Results]
        /\ method \in [{Worker} -> Q!PopMethods]
    BY DEF Init, Q!Init, Q!States, Q!Results, Q!PopMethods
  <2>4. expected \in [Producers -> Nat] /\ maxCount \in [{Worker} -> Nat \ {0}]
    BY DEF Init, Q!Init
  <2> QED
    BY <1>2, <2>1, <2>2, <2>3, <2>4 DEF Q!TypeOK
<1>4. SettingTypes /\ WorkerTypes
  BY <1>1 DEF Init, SettingTypes, WorkerTypes, WorkerStates
<1>5. SinkTypes
  <2>1. DOMAIN written = {} /\ DOMAIN flushed = {}
    BY DEF Init
  <2> QED
    BY <2>1 DEF Init, SinkTypes
<1>6. ProducerTypes
  BY <1>1, <1>2 DEF Init, ProducerTypes
<1>7. ControlTypes
  BY <1>1 DEF Init, Q!Init, ControlTypes, ControlStates, GenerationsBounded
<1> QED
  BY <1>3, <1>4, <1>5, <1>6, <1>7, TypeParts

(* Every step keeps the types.                                             *)
LEMMA NextTypes == TypeInv /\ [Next]_vars => TypeInv'
<1> SUFFICES ASSUME TypeInv, [Next]_vars PROVE TypeInv'
  OBVIOUS
<1>1. TypeOK /\ Q!TypeOK'
  BY NextQueue, QueueType DEF TypeInv
<1>2. /\ Q!TypeOK /\ SettingTypes /\ SinkTypes /\ WorkerTypes /\ ProducerTypes
      /\ ControlTypes
  BY TypeParts
<1>3. ASSUME UNCHANGED <<settingVars, sinkVars, workerVars>>
      PROVE  SettingTypes' /\ SinkTypes' /\ WorkerTypes'
  BY <1>2, <1>3
  DEF settingVars, sinkVars, workerVars, SettingTypes, SinkTypes, WorkerTypes
<1>4. ASSUME UNCHANGED <<controlVars, generation>> PROVE ControlTypes'
  BY <1>2, <1>4 DEF controlVars, ControlTypes, GenerationsBounded
<1>5. ASSUME UNCHANGED producerVars PROVE ProducerTypes'
  BY <1>2, <1>5 DEF producerVars, ProducerTypes
<1>6. ASSUME SettingTypes', SinkTypes', WorkerTypes', ProducerTypes', ControlTypes'
      PROVE  TypeInv'
  BY <1>1, <1>6, TypeParts
  DEF TypeInv, TypeOK, SettingTypes, SinkTypes, WorkerTypes, ProducerTypes,
      ControlTypes
<1>7. ASSUME NEW p \in Producers,
             \/ ProducerStep(p)
             \/ \E level \in Levels : ShouldLog(p, level) \/ Log(p, level)
      PROVE  TypeInv'
  BY <1>1, <1>2, <1>3, <1>4, <1>6, <1>7, ProducerFrame, ProducerStepTypes
  DEF ProducerTypes
<1>8. ASSUME NEW level \in Levels, SetLevel(level) PROVE TypeInv'
  BY <1>2, <1>4, <1>5, <1>6, <1>8
  DEF SetLevel, queueVars, sinkVars, workerVars, SettingTypes, SinkTypes, WorkerTypes
<1>9. CASE WorkerStep \/ WorkerTimeout \/ Tick
  BY <1>2, <1>4, <1>5, <1>6, <1>9, WorkerFrame, WorkerStepTypes
<1>10. ASSUME NEW k \in Controllers,
              \/ Stop(k) \/ ControlStep(k)
              \/ \E cf \in Configs : InitCall(k, cf)
       PROVE  TypeInv'
  <2>1. UNCHANGED <<logging, record, calls>> /\ accepted' \in {accepted, <<>>}
    BY <1>10, ControlFrame
  <2>2. <<>> \in Seq(Q!Entry)
    OBVIOUS
  <2>3. ProducerTypes'
    BY <1>2, <2>1, <2>2 DEF ProducerTypes
  <2> QED
    BY <1>6, <1>10, <2>3, ControlStepTypes
<1>11. ASSUME NEW t \in Q!Threads, CloseNotify(t) \/ SpuriousWake(t)
       PROVE  TypeInv'
  <2>1. generation' = generation /\ OnlyQueue
    BY <1>11 DEF CloseNotify, SpuriousWake, Q!CloseNotify, Q!SpuriousWake, Q!members
  <2> QED
    BY <1>3, <1>4, <1>5, <1>6, <2>1 DEF OnlyQueue
<1>12. CASE UNCHANGED vars
  BY <1>3, <1>4, <1>5, <1>6, <1>12 DEF vars, queueVars
<1> QED
  BY <1>7, <1>8, <1>9, <1>10, <1>11, <1>12 DEF Next

(* Every variable keeps its type, and the lifecycle lock has a holder      *)
(* exactly while that controller is inside init() or stop(): for any       *)
(* number of threads, configurations and calls.                            *)
THEOREM LoggerTypeCorrect == Spec => []TypeOK
<1>1. TypeInv => TypeOK
  BY DEF TypeInv
<1> QED
  BY <1>1, InitTypes, NextTypes, PTL DEF Spec
--------------------------------------------------------------------------------
(* The places of init(), stop() and the worker *)

(* Whatever thread t does, the others stay where they are or are woken.    *)
OthersOnlyWake(t) ==
  \A u \in Q!Threads \ {t} :
    /\ result'[u] = result[u]
    /\ \/ pc'[u] = pc[u]
       \/ pc[u] = "notFullWait" /\ pc'[u] = "notFullWoken"
       \/ pc[u] = "notEmptyWait" /\ pc'[u] = "notEmptyWoken"

(* notify_one, notify_all, their sender and a spurious wakeup leave every  *)
(* other thread where it is, or wake it.                                   *)
LEMMA NotifyWakes ==
  ASSUME Q!TypeOK, NEW t \in Q!Threads,
         \/ Q!PushNotify(t) \/ Q!PopNotify(t) \/ Q!PopTimeout(t) \/ Q!Close(t)
         \/ Q!CloseNotify(t) \/ Q!SpuriousWake(t)
         \/ \E cap, policy : Q!Reset(t, cap, policy)
         \/ UNCHANGED queueVars
  PROVE  OthersOnlyWake(t)
<1> USE DEF Q!TypeOK, OthersOnlyWake
<1>1. CASE Q!PushNotify(t)
  BY <1>1 DEF Q!PushNotify, Q!NotifyOne, Q!OnNotEmpty
<1>2. CASE Q!PopNotify(t)
  BY <1>2 DEF Q!PopNotify, Q!NotifyOne, Q!NotifyAll, Q!OnNotFull
<1>3. CASE Q!CloseNotify(t)
  BY <1>3 DEF Q!CloseNotify, Q!NotifyAll, Q!OnNotFull, Q!OnNotEmpty
<1>4. ASSUME NEW cap, NEW policy, Q!Reset(t, cap, policy) PROVE OthersOnlyWake(t)
  BY <1>4 DEF Q!Reset, Q!WakeEverybody, Q!OnNotFull, Q!OnNotEmpty
<1>5. CASE Q!PopTimeout(t) \/ Q!Close(t) \/ Q!SpuriousWake(t)
  BY <1>5 DEF Q!PopTimeout, Q!Close, Q!SpuriousWake
<1>6. CASE UNCHANGED queueVars
  BY <1>6 DEF queueVars
<1> QED
  BY <1>1, <1>2, <1>3, <1>4, <1>5, <1>6

(* So does everything a thread does in a step of its own.                  *)
LEMMA StepWakes ==
  ASSUME TypeInv, NEW t \in Q!Threads,
         \/ /\ t \in Producers
            /\ \/ ProducerStep(t)
               \/ \E level \in Levels : ShouldLog(t, level) \/ Log(t, level)
         \/ t = Worker /\ (WorkerStep \/ WorkerTimeout \/ Tick)
         \/ /\ t \in Controllers
            /\ \/ Stop(t) \/ ControlStep(t)
               \/ \E cf \in Configs : InitCall(t, cf)
         \/ CloseNotify(t) \/ SpuriousWake(t)
         \/ \E level \in Levels : SetLevel(level)
  PROVE  OthersOnlyWake(t)
<1> Q!TypeOK /\ record \in [Producers -> LogRecord]
  BY DEF TypeInv, TypeOK
<1>1. ASSUME OnlyMoves(t) PROVE OthersOnlyWake(t)
  BY <1>1 DEF OnlyMoves, OthersOnlyWake, Q!TypeOK
<1>2. CASE UNCHANGED queueVars
  BY <1>2, NotifyWakes
<1>3. ASSUME t \in Producers, ProducerStep(t) PROVE OthersOnlyWake(t)
  <2>1. CASE LogStatic(t)
    BY <1>2, <2>1
    DEF LogStatic, Capture, Q!GetGeneration, Q!members, OthersOnlyWake
  <2>2. CASE PushRecord(t)
    BY <1>1, <1>3, <2>2, PushDoes DEF PushRecord, Q!Push, Pushes, Q!TypeOK
  <2>3. CASE Q!PushWake(t)
    BY <1>1, <1>3, <2>3, PushDoes DEF Q!PushWake, Pushes, Q!TypeOK
  <2> QED
    BY <1>3, <2>1, <2>2, <2>3, NotifyWakes
    DEF ProducerStep, ProducerQueueStep, Q!ProducerStep
<1>4. ASSUME NEW level \in Levels, ShouldLog(t, level) \/ Log(t, level)
      PROVE  OthersOnlyWake(t)
  BY <1>2, <1>4
  DEF ShouldLog, Log, Capture, Q!GetGeneration, Q!members, OthersOnlyWake
<1>5. ASSUME t = Worker, WorkerStep \/ WorkerTimeout \/ Tick
      PROVE  OthersOnlyWake(t)
  <2>1. CASE UNCHANGED <<pc, result>>
    BY <2>1 DEF OthersOnlyWake
  <2>2. ASSUME NEW m, NEW n \in Nat \ {0},
               Q!TakeLocked(t, m, n) \/ Q!ParkOnNotEmpty(t)
        PROVE  OthersOnlyWake(t)
    <3>1. Q!ParkOnNotEmpty(t) => OnlyMoves(t)
      BY DEF Q!ParkOnNotEmpty, Q!Finish, OnlyMoves, Q!States, Q!NotEmptyStates, Q!Results
    <3> QED
      BY <1>1, <1>5, <2>2, <3>1, TakeDoes DEF Takes
  <2>3. CASE WorkerPop
    <3>1. Q!Pop(t, IF Periodic THEN "popBatchFor" ELSE "popBatch",
                config.writeBatchSize)
      BY <1>5, <2>3 DEF WorkerPop
    <3>2. config.writeBatchSize \in Nat \ {0}
      BY <3>1, ConfigType DEF Q!Pop, TypeInv, TypeOK
    <3> QED
      BY <2>2, <3>1, <3>2 DEF Q!Pop
  <2>4. CASE Q!PopWake(t) \/ Q!PopTimedOut(t)
    <3>1. maxCount[t] \in Nat \ {0}
      BY <1>5 DEF Q!TypeOK
    <3>2. Q!Finish(t, "idle", "noValues") => OnlyMoves(t)
      BY DEF Q!Finish, OnlyMoves, Q!States, Q!Results
    <3> QED
      BY <1>1, <2>2, <2>4, <3>1, <3>2 DEF Q!PopWake, Q!PopTimedOut
  <2>5. CASE WorkerQueueStep \/ WorkerTimeout \/ WorkerCloses
    BY <1>5, <2>4, <2>5, NotifyWakes
    DEF WorkerQueueStep, WorkerTimeout, WorkerCloses, Q!ConsumerStep
  <2>6. CASE Tick
    BY <1>2, <2>6 DEF Tick
  <2>7. CASE WorkerStart \/ WriteBatch \/ FlushAfterBatch \/ NoBatch \/ CheckClosed
             \/ WorkerFails \/ FinalFlush
    BY <2>1, <2>7
    DEF WorkerStart, WriteBatch, FlushAfterBatch, NoBatch, CheckClosed,
        WorkerFails, FinalFlush, GoOn, OnlyWorker, queueVars
  <2> QED
    BY <1>5, <2>3, <2>5, <2>6, <2>7 DEF WorkerStep
<1>6. ASSUME \/ Stop(t) \/ ControlStep(t)
             \/ \E cf \in Configs : InitCall(t, cf)
      PROVE  OthersOnlyWake(t)
  BY <1>2, <1>6, NotifyWakes
  DEF Stop, InitCall, ControlStep, InitJoin, InitReset, InitConfigure, InitSpawn,
      InitAbort, InitAborted, StopClose, StopJoin
<1>7. CASE CloseNotify(t) \/ SpuriousWake(t)
  BY <1>7, NotifyWakes DEF CloseNotify, SpuriousWake
<1>8. ASSUME NEW level \in Levels, SetLevel(level) PROVE OthersOnlyWake(t)
  BY <1>2, <1>8 DEF SetLevel
<1> QED
  BY <1>3, <1>4, <1>5, <1>6, <1>7, <1>8

(* What the place of a controller tells: from the join on there is no      *)
(* worker until init() makes one, running_ is set only at the end of       *)
(* init(), and then on an open queue with sinks that have got nothing yet. *)
ControlPlaces ==
  \A k \in Controllers :
    /\ control[k] \notin {"idle", "initJoin", "stopClose", "stopJoin"} =>
         worker = "none"
    /\ control[k] \notin {"idle", "initSpawn"} => ~running
    /\ control[k] \in {"initConfigure", "initSpawn"} =>
         ~closed /\ \A i \in DOMAIN written : written[i] = <<>>
    /\ control[k] = "initSpawn" => sinksOpen

Serving == {"starting", "loop", "popping", "written", "check", "failing"}

(* What the place of the worker tells: while running_ is set it serves an  *)
(* open queue, it has sinks as long as it is there, and it waits nowhere   *)
(* but in a pop function.                                                  *)
WorkerPlaces ==
  /\ running => /\ ~closed
                /\ worker \in Serving \/ \E k \in Controllers : control[k] = "initSpawn"
  /\ worker = "none" => pc[Worker] = "idle"
  /\ worker # "none" => sinksOpen
  /\ pc[Worker] \notin Q!NotFullStates
  /\ pc[Worker] \in Q!NotEmptyStates => worker = "popping"

PlaceInv == ControlPlaces /\ WorkerPlaces

(* Nobody else moves the worker but to wake it.                            *)
LEMMA OthersKeepPlaces ==
  ASSUME TypeInv, PlaceInv, NEW t \in Q!Threads, t # Worker, OthersOnlyWake(t),
         UNCHANGED <<control, worker, running, closed, written, sinksOpen>>
  PROVE  PlaceInv'
<1>1. /\ Worker \in Q!Threads \ {t}
      /\ pc'[Worker] \in Q!NotEmptyStates => pc[Worker] \in Q!NotEmptyStates
      /\ pc'[Worker] \in Q!NotFullStates => pc[Worker] \in Q!NotFullStates
      /\ pc[Worker] = "idle" => pc'[Worker] = "idle"
  BY DEF OthersOnlyWake, Q!Threads, Q!NotEmptyStates, Q!NotFullStates
<1>2. ControlPlaces'
  BY DEF PlaceInv, ControlPlaces
<1>3. WorkerPlaces'
  BY <1>1 DEF PlaceInv, WorkerPlaces
<1> QED
  BY <1>2, <1>3 DEF PlaceInv

(* The worker's steps: it leaves the serving states only after it has      *)
(* cleared running_ or found the queue closed.                             *)
LEMMA WorkerKeepsPlaces ==
  ASSUME TypeInv, PlaceInv,
         \/ WorkerStep \/ WorkerTimeout \/ Tick
         \/ CloseNotify(Worker) \/ SpuriousWake(Worker)
  PROVE  PlaceInv'
<1> Q!TypeOK /\ Worker \in Q!Threads
  BY DEF TypeInv, TypeOK, Q!Threads
<1>1. ASSUME worker # "none", worker' # "none", running' => running,
             UNCHANGED <<control, sinksOpen>>
      PROVE  ControlPlaces'
  BY <1>1 DEF PlaceInv, ControlPlaces
<1>2. ASSUME worker # "none", worker' # "none",
             running' => running /\ ~closed' /\ worker' \in Serving,
             sinksOpen' = sinksOpen,
             pc'[Worker] \notin Q!NotFullStates,
             pc'[Worker] \in Q!NotEmptyStates => worker' = "popping"
      PROVE  WorkerPlaces'
  BY <1>2 DEF PlaceInv, WorkerPlaces
<1>3. worker # "none" /\ running => ~closed /\ worker \in Serving
  BY DEF PlaceInv, WorkerPlaces, ControlPlaces
<1>4. ASSUME UNCHANGED <<control, sinksOpen>>, worker # "none", worker' # "none",
             running' => running /\ ~closed' /\ worker' \in Serving,
             pc'[Worker] \notin Q!NotFullStates,
             pc'[Worker] \in Q!NotEmptyStates => worker' = "popping"
      PROVE  PlaceInv'
  BY <1>1, <1>2, <1>4 DEF PlaceInv
<1>5. WorkerStep \/ WorkerTimeout \/ Tick => UNCHANGED <<control, sinksOpen>>
  BY WorkerFrame DEF controlVars
<1>6. pc[Worker] \notin Q!NotFullStates
  BY DEF PlaceInv, WorkerPlaces
<1>7. worker # "popping" => pc[Worker] \notin Q!NotEmptyStates
  BY DEF PlaceInv, WorkerPlaces
<1>8. worker = "none" => pc[Worker] = "idle"
  BY DEF PlaceInv, WorkerPlaces
<1> USE DEF Serving, Q!NotFullStates, Q!NotEmptyStates
<1>9. CASE \/ WorkerStart \/ WriteBatch \/ FlushAfterBatch \/ NoBatch \/ CheckClosed
           \/ WorkerFails \/ FinalFlush
  <2>1. UNCHANGED <<pc, closed>>
    BY <1>9
    DEF WorkerStart, WriteBatch, FlushAfterBatch, NoBatch, CheckClosed,
        WorkerFails, FinalFlush, GoOn, OnlyWorker, queueVars
  <2>2. worker # "none" /\ worker' # "none" /\ pc'[Worker] \notin Q!NotEmptyStates
    BY <1>7, <1>9, <2>1
    DEF WorkerStart, WriteBatch, FlushAfterBatch, NoBatch, CheckClosed,
        WorkerFails, FinalFlush, GoOn, FlushSinks, NextRound, AfterNoBatch, AfterFault
  <2>3. running' => running /\ worker' \in Serving
    BY <1>3, <1>9
    DEF WorkerStart, WriteBatch, FlushAfterBatch, NoBatch, CheckClosed,
        WorkerFails, FinalFlush, GoOn, FlushSinks, NextRound, AfterNoBatch
  <2> QED
    BY <1>3, <1>4, <1>5, <1>6, <1>9, <2>1, <2>2, <2>3 DEF WorkerStep
<1>10. CASE WorkerPop
  <2>1. Q!Pop(Worker, IF Periodic THEN "popBatchFor" ELSE "popBatch",
              config.writeBatchSize)
    BY <1>10 DEF WorkerPop
  <2>2. pc'[Worker] \in {"idle", "notifyFullOne", "notifyFullAll", "notEmptyWait"}
    BY <2>1
    DEF Q!Pop, Q!TakeLocked, Q!ParkOnNotEmpty, Q!Finish, Q!NotifyAfter, Q!TypeOK
  <2>3. closed' = closed /\ worker = "loop" /\ worker' = "popping" /\ running' = running
    BY <1>10, <2>1
    DEF WorkerPop, Q!Pop, Q!TakeLocked, Q!ParkOnNotEmpty, Q!members, settingVars
  <2> QED
    BY <1>3, <1>4, <1>5, <1>10, <2>2, <2>3 DEF WorkerStep
<1>11. CASE WorkerQueueStep \/ WorkerTimeout
  <2>1. Q!ConsumerStep(Worker) \/ Q!PopTimeout(Worker)
    BY <1>11 DEF WorkerQueueStep, WorkerTimeout
  <2>2. UNCHANGED <<worker, running>>
    BY <1>11 DEF WorkerQueueStep, WorkerTimeout, OnlyQueue, settingVars, workerVars
  <2>3. closed' = closed /\ pc[Worker] # "idle"
    BY <2>1
    DEF Q!ConsumerStep, Q!PopWake, Q!PopTimedOut, Q!PopNotify, Q!PopTimeout,
        Q!TakeLocked, Q!ParkOnNotEmpty, Q!members
  <2>4. CASE Q!PopNotify(Worker)
    <3>1. pc'[Worker] = "idle"
      BY <2>4
      DEF Q!PopNotify, Q!NotifyOne, Q!NotifyAll, Q!OnNotFull, Q!TypeOK
    <3> QED
      BY <1>3, <1>4, <1>5, <1>8, <1>11, <2>2, <2>3, <3>1 DEF WorkerStep
  <2>5. CASE Q!PopWake(Worker) \/ Q!PopTimedOut(Worker) \/ Q!PopTimeout(Worker)
    <3>1. pc[Worker] \in Q!NotEmptyStates
      BY <2>5 DEF Q!PopWake, Q!PopTimedOut, Q!PopTimeout
    <3>2. pc'[Worker] \notin Q!NotFullStates
      BY <2>5
      DEF Q!PopWake, Q!PopTimedOut, Q!PopTimeout, Q!TakeLocked, Q!ParkOnNotEmpty,
          Q!Finish, Q!NotifyAfter, Q!TypeOK
    <3> QED
      BY <1>3, <1>4, <1>5, <1>7, <1>11, <2>2, <2>3, <3>1, <3>2 DEF WorkerStep
  <2> QED
    BY <2>1, <2>4, <2>5 DEF Q!ConsumerStep
<1>12. CASE WorkerCloses
  <2>1. /\ worker \in {"closing", "closingLast"} /\ worker' \in {"finalFlush", "exited"}
        /\ running' = running /\ pc'[Worker] = "closeEmpty"
    BY <1>12 DEF WorkerCloses, AfterClose, Q!Close, settingVars, Q!TypeOK
  <2> QED
    BY <1>3, <1>4, <1>5, <1>12, <2>1 DEF WorkerStep
<1>13. CASE Tick
  <2>1. worker # "none" /\ UNCHANGED <<pc, closed, worker, running>>
    BY <1>13 DEF Tick, queueVars, settingVars
  <2> QED
    BY <1>3, <1>4, <1>5, <1>6, <1>7, <1>13, <2>1
<1>14. CASE CloseNotify(Worker) \/ SpuriousWake(Worker)
  <2>1. UNCHANGED <<control, sinksOpen, worker, running, closed>>
    BY <1>14
    DEF CloseNotify, SpuriousWake, Q!CloseNotify, Q!SpuriousWake, Q!members,
        OnlyQueue, settingVars, sinkVars, workerVars, controlVars
  <2>2. /\ pc[Worker] # "idle"
        /\ \/ pc'[Worker] \in {"closeFull", "idle"}
           \/ pc[Worker] = "notEmptyWait" /\ pc'[Worker] = "notEmptyWoken"
    BY <1>6, <1>14
    DEF CloseNotify, SpuriousWake, Q!CloseNotify, Q!SpuriousWake, Q!NotifyAll, Q!TypeOK
  <2> QED
    BY <1>3, <1>4, <1>7, <1>8, <2>1, <2>2
<1> QED
  BY <1>9, <1>10, <1>11, <1>12, <1>13, <1>14 DEF WorkerStep

(* The steps of init() and stop(), one controller at a time                *)
LEMMA ControlKeepsPlaces ==
  ASSUME TypeInv, PlaceInv, NEW k \in Controllers,
         \/ Stop(k) \/ ControlStep(k)
         \/ \E cf \in Configs : InitCall(k, cf)
  PROVE  PlaceInv'
<1>1. /\ Worker # k /\ k \in Q!Threads /\ Worker \in Q!Threads \ {k}
      /\ Nobody \notin Controllers /\ Q!TypeOK
      /\ control \in [Controllers -> ControlStates]
      /\ \A j \in Controllers : control[j] # "idle" <=> lifecycleOwner = j
  BY LoggerAssumption DEF TypeInv, TypeOK, Q!Threads
<1>2. OthersOnlyWake(k)
  BY <1>1, StepWakes
<1>3. /\ pc[Worker] = "idle" => pc'[Worker] = "idle"
      /\ pc'[Worker] \notin Q!NotFullStates
      /\ pc'[Worker] \in Q!NotEmptyStates => worker = "popping"
  BY <1>1, <1>2
  DEF OthersOnlyWake, PlaceInv, WorkerPlaces, Q!NotEmptyStates, Q!NotFullStates
<1>4. \/ control[k] # "idle" /\ \A j \in Controllers \ {k} : control[j] = "idle"
      \/ lifecycleOwner = Nobody /\ \A j \in Controllers : control[j] = "idle"
  BY <1>1 DEF Stop, ControlStep, InitCall, InitJoin, InitReset, InitConfigure, InitSpawn,
       InitAbort, InitAborted, StopClose, StopJoin
(* Only the caller is inside the lock: the other places say nothing.       *)
<1>5. ASSUME NEW s \in ControlStates,
             control' = [control EXCEPT ![k] = s],
             s \notin {"idle", "initJoin", "stopClose", "stopJoin"} => worker' = "none",
             s \notin {"idle", "initSpawn"} => ~running',
             s \in {"initConfigure", "initSpawn"} =>
               ~closed' /\ \A i \in DOMAIN written' : written'[i] = <<>>,
             s = "initSpawn" => sinksOpen'
      PROVE  ControlPlaces'
  BY <1>1, <1>4, <1>5 DEF ControlPlaces
<1>6. ASSUME ~running', worker' \in {worker, "none"},
             worker' = "none" => pc[Worker] = "idle",
             worker' # "none" => sinksOpen'
      PROVE  WorkerPlaces'
  BY <1>3, <1>6 DEF WorkerPlaces, Q!NotEmptyStates
<1>7. /\ worker = "none" => pc[Worker] = "idle"
      /\ worker # "none" => sinksOpen
      /\ control[k] \notin {"idle", "initSpawn"} => ~running
      /\ control[k] \notin {"idle", "initJoin", "stopClose", "stopJoin"} => worker = "none"
      /\ control[k] \in {"initConfigure", "initSpawn"} =>
           ~closed /\ \A i \in DOMAIN written : written[i] = <<>>
      /\ control[k] = "initSpawn" => sinksOpen
  BY DEF PlaceInv, ControlPlaces, WorkerPlaces
<1> USE DEF PlaceInv, ControlStates
<1>8. ASSUME NEW cf \in Configs, InitCall(k, cf) PROVE PlaceInv'
  <2>1. CASE control' = control
    BY <1>1, <1>2, <1>8, <2>1, OthersKeepPlaces
    DEF InitCall, queueVars, settingVars, sinkVars, workerVars
  <2>2. CASE ~running /\ control' = [control EXCEPT ![k] = "initJoin"]
    <3>1. UNCHANGED <<running, worker, sinksOpen>>
      BY <1>8 DEF InitCall, settingVars, workerVars, sinkVars
    <3> QED
      BY <1>5, <1>6, <1>7, <2>2, <3>1
  <2> QED
    BY <1>8, <2>1, <2>2 DEF InitCall
<1>9. CASE Stop(k)
  <2>1. /\ ~running' /\ UNCHANGED <<worker, sinksOpen>>
        /\ control' = [control EXCEPT ![k] = "stopClose"]
    BY <1>9 DEF Stop, workerVars, sinkVars
  <2> QED
    BY <1>5, <1>6, <1>7, <2>1
<1>10. CASE InitJoin(k) \/ StopJoin(k) \/ InitAborted(k)
  <2>1. /\ control[k] \in {"initJoin", "stopJoin", "initAborting"}
        /\ ~running /\ running' = running
        /\ control' \in {[control EXCEPT ![k] = "idle"], [control EXCEPT ![k] = "initReset"]}
    BY <1>7, <1>10 DEF InitJoin, StopJoin, InitAborted, Go, Return, settingVars
  <2>2. worker' = "none" /\ pc[Worker] = "idle"
    BY <1>7, <1>10
    DEF InitJoin, StopJoin, InitAborted, JoinWorker, Joinable, Exited, workerVars
  <2> QED
    BY <1>5, <1>6, <2>1, <2>2
<1>11. CASE InitReset(k)
  <2>1. /\ control[k] = "initReset" /\ UNCHANGED <<running, worker, sinksOpen>>
        /\ control' = [control EXCEPT ![k] = "initConfigure"]
    BY <1>11 DEF InitReset, Go, settingVars, workerVars
  <2>2. ~closed' /\ \A i \in DOMAIN written' : written'[i] = <<>>
    BY <1>11 DEF InitReset, Q!Reset
  <2> QED
    BY <1>5, <1>6, <1>7, <2>1, <2>2
<1>12. CASE InitConfigure(k)
  <2>1. /\ control[k] = "initConfigure" /\ sinksOpen' /\ running'
        /\ control' = [control EXCEPT ![k] = "initSpawn"]
        /\ UNCHANGED <<worker, closed, pc, written>>
    BY <1>12 DEF InitConfigure, Go, workerVars, queueVars
  <2>2. ControlPlaces'
    BY <1>5, <1>7, <2>1
  <2>3. \E j \in Controllers : control'[j] = "initSpawn"
    BY <1>1, <2>1
  <2> QED
    BY <1>3, <1>7, <2>1, <2>2, <2>3 DEF WorkerPlaces
<1>13. CASE InitSpawn(k)
  <2>1. /\ control[k] = "initSpawn"
        /\ UNCHANGED <<sinksOpen, closed, pc, written>>
    BY <1>13 DEF InitSpawn, sinkVars, queueVars
  <2>2. CASE /\ worker' = "starting" /\ running' = running
             /\ control' = [control EXCEPT ![k] = "idle"]
    <3>1. ControlPlaces'
      BY <1>5, <2>2
    <3> QED
      BY <1>3, <1>7, <2>1, <2>2, <3>1 DEF WorkerPlaces, Serving, Q!NotEmptyStates
  <2>3. CASE /\ worker' = worker /\ ~running'
             /\ control' = [control EXCEPT ![k] = "initAbort"]
    BY <1>5, <1>6, <1>7, <2>1, <2>3
  <2> QED
    BY <1>13, <2>2, <2>3 DEF InitSpawn, Return, Go, workerVars
<1>14. CASE InitAbort(k) \/ StopClose(k)
  <2>1. /\ control[k] \in {"initAbort", "stopClose"}
        /\ UNCHANGED <<running, worker, sinksOpen>>
        /\ \/ /\ control' = [control EXCEPT ![k] = "stopJoin"]
              /\ control[k] = "stopClose"
           \/ /\ control' = [control EXCEPT ![k] = "initAborting"]
              /\ control[k] = "initAbort"
    BY <1>14 DEF InitAbort, StopClose, Go, settingVars, workerVars, sinkVars
  <2> QED
    BY <1>5, <1>6, <1>7, <2>1
<1> QED
  BY <1>8, <1>9, <1>10, <1>11, <1>12, <1>13, <1>14 DEF ControlStep

(* At first nobody is in init() or stop(), and there is no worker.         *)
LEMMA InitPlaces == Init => PlaceInv
BY DEF Init, Q!Init, PlaceInv, ControlPlaces, WorkerPlaces, Q!Threads, Q!NotFullStates,
       Q!NotEmptyStates

(* Every step keeps what the places tell.                                  *)
LEMMA NextPlaces == TypeInv /\ PlaceInv /\ [Next]_vars => PlaceInv'
<1> SUFFICES ASSUME TypeInv, PlaceInv, [Next]_vars PROVE PlaceInv'
  OBVIOUS
<1>1. Q!TypeOK /\ record \in [Producers -> LogRecord]
  BY DEF TypeInv, TypeOK
<1>2. ASSUME NEW p \in Producers,
             \/ ProducerStep(p)
             \/ \E level \in Levels : ShouldLog(p, level) \/ Log(p, level)
      PROVE  PlaceInv'
  <2>1. p \in Q!Threads /\ p # Worker
    BY LoggerAssumption DEF Q!Threads
  <2>2. UNCHANGED <<control, worker, running, closed, written, sinksOpen>>
    BY <1>1, <1>2, ProducerFrame
    DEF settingVars, sinkVars, workerVars, controlVars
  <2> QED
    BY <1>2, <2>1, <2>2, StepWakes, OthersKeepPlaces
<1>3. ASSUME NEW t \in Q!Threads, t # Worker, CloseNotify(t) \/ SpuriousWake(t)
      PROVE  PlaceInv'
  <2>1. UNCHANGED <<control, worker, running, closed, written, sinksOpen>>
    BY <1>3
    DEF CloseNotify, SpuriousWake, Q!CloseNotify, Q!SpuriousWake, Q!members,
        OnlyQueue, settingVars, sinkVars, workerVars, controlVars
  <2> QED
    BY <1>3, <2>1, StepWakes, OthersKeepPlaces
<1>4. ASSUME UNCHANGED <<control, worker, running, closed, written, sinksOpen, pc>>
      PROVE  PlaceInv'
  BY <1>4 DEF PlaceInv, ControlPlaces, WorkerPlaces
<1>5. ASSUME NEW level \in Levels, SetLevel(level) PROVE PlaceInv'
  BY <1>4, <1>5 DEF SetLevel, queueVars, sinkVars, workerVars, controlVars
<1>6. CASE UNCHANGED vars
  BY <1>4, <1>6 DEF vars, queueVars, settingVars, sinkVars, workerVars, controlVars
<1> QED
  BY <1>2, <1>3, <1>5, <1>6, WorkerKeepsPlaces, ControlKeepsPlaces DEF Next

(* While running_ is set and nobody is in init() or stop(), a worker       *)
(* serves an open queue or is about to say that it failed.                 *)
THEOREM ServedCorrect == Spec => []RunningMeansServed
<1>1. TypeInv /\ PlaceInv => RunningMeansServed
  <2> SUFFICES ASSUME TypeInv, PlaceInv, running, lifecycleOwner = Nobody
               PROVE  ~closed /\ worker \in Serving
    BY DEF RunningMeansServed, Serving
  <2>1. \A k \in Controllers : control[k] = "idle"
    BY LoggerAssumption DEF TypeInv, TypeOK
  <2> QED
    BY <2>1 DEF PlaceInv, WorkerPlaces
<1> QED
  BY <1>1, InitTypes, NextTypes, InitPlaces, NextPlaces, PTL DEF Spec

(* reset() is called only where no worker is, and none is still inside a   *)
(* call of the queue, also after a worker that failed by itself.           *)
THEOREM ResetCorrect == Spec => ResetFindsNoWorker
<1> DEFINE A == generation' # generation => worker = "none" /\ pc[Worker] = "idle"
<1>1. TypeInv /\ PlaceInv /\ [Next]_vars => [A]_vars
  <2> SUFFICES ASSUME TypeInv, PlaceInv, Next, generation' # generation
               PROVE  worker = "none" /\ pc[Worker] = "idle"
    OBVIOUS
  <2>1. Q!TypeOK /\ record \in [Producers -> LogRecord]
    BY DEF TypeInv, TypeOK
  <2>2. PICK k \in Controllers : InitReset(k)
    <3>1. \A p \in Producers :
            ~ \/ ProducerStep(p)
              \/ \E level \in Levels : ShouldLog(p, level) \/ Log(p, level)
      BY <2>1, ProducerFrame
    <3>2. ~(WorkerStep \/ WorkerTimeout \/ Tick)
      BY <2>1, WorkerFrame
    <3>3. \A level \in Levels : ~SetLevel(level)
      BY DEF SetLevel, queueVars
    <3>4. \A t \in Q!Threads : ~(CloseNotify(t) \/ SpuriousWake(t))
      BY DEF CloseNotify, SpuriousWake, Q!CloseNotify, Q!SpuriousWake, Q!members
    <3>5. PICK k \in Controllers : \/ Stop(k) \/ ControlStep(k)
                                   \/ \E cf \in Configs : InitCall(k, cf)
      BY <3>1, <3>2, <3>3, <3>4 DEF Next
    <3> QED
      BY <3>5
      DEF Stop, InitCall, ControlStep, InitJoin, InitConfigure, InitSpawn, InitAbort,
          InitAborted, StopClose, StopJoin, queueVars, Q!Close
  <2>3. control[k] = "initReset"
    BY <2>2 DEF InitReset
  <2> QED
    BY <2>3 DEF PlaceInv, ControlPlaces, WorkerPlaces
<1> QED
  BY <1>1, InitTypes, NextTypes, InitPlaces, NextPlaces, PTL
  DEF Spec, ResetFindsNoWorker

--------------------------------------------------------------------------------
(* No record of an earlier lifecycle *)

(* The generation a producer holds for its push() is the lifecycle of the  *)
(* record, from the section under the shared lock until push() returns.    *)
Tagged(p) ==
  /\ logging[p] = "captured" => record[p].lifecycle = expected[p]
  /\ pc[p] \in Q!NotFullStates => value[p].lifecycle = expected[p]

Present(s) == \A i \in 1..Len(s) : s[i].value.lifecycle = generation

(* LifecycleIsolation is inductive together with the tags of the producers *)
(* that have not put their record into the queue.                          *)
IsolationInv ==
  /\ \A p \in Producers : Tagged(p)
  /\ Present(queue)
  /\ worker = "popping" /\ result[Worker] = "values" => Present(batch[Worker])
  /\ \A i \in DOMAIN written : Present(written[i])

(* A step of a producer keeps the other producers' tags.                   *)
LEMMA OthersTagged ==
  ASSUME TypeInv, NEW t \in Q!Threads, OthersOnlyWake(t),
         NEW p \in Producers \ {t}, Tagged(p),
         logging'[p] = logging[p], record'[p] = record[p],
         value'[p] = value[p], expected'[p] = expected[p]
  PROVE  Tagged(p)'
<1>1. p \in Q!Threads \ {t}
  BY DEF Q!Threads
<1>2. pc'[p] \in Q!NotFullStates => pc[p] \in Q!NotFullStates
  BY <1>1 DEF OthersOnlyWake, Q!NotFullStates
<1> QED
  BY <1>2 DEF Tagged

(* Where a record goes into the queue its generation has just been found   *)
(* current.                                                                *)
LEMMA PushIsolated ==
  ASSUME TypeInv, NEW p \in Producers, NEW v \in LogRecord, NEW g \in Nat,
         Pushes(p, v, g), v.lifecycle = g, Present(queue)
  PROVE  Present(queue)'
<1> SUFFICES ASSUME NEW i \in 1..Len(queue')
             PROVE  queue'[i].value.lifecycle = generation
  BY DEF Present, Pushes
<1>1. CASE \E j \in 1..Len(queue) : queue'[i] = queue[j]
  BY <1>1 DEF Present
<1>2. CASE queue'[i] = [value |-> v, generation |-> g] /\ g = generation
  BY <1>2
<1> QED
  BY <1>1, <1>2 DEF Pushes

(* A step of a producer puts only records of the present lifecycle into    *)
(* the queue: any other one is tagged with a generation that push()        *)
(* refuses.                                                                *)
LEMMA ProducerIsolated ==
  ASSUME TypeInv, IsolationInv, NEW p \in Producers,
         \/ ProducerStep(p)
         \/ \E level \in Levels : ShouldLog(p, level) \/ Log(p, level)
  PROVE  IsolationInv'
<1>1. /\ Q!TypeOK /\ record \in [Producers -> LogRecord]
      /\ logging \in [Producers -> {"idle", "admitted", "captured"}]
      /\ p \in Q!Threads /\ Worker \in Q!Threads \ {p}
  BY LoggerAssumption DEF TypeInv, TypeOK, Q!Threads
<1>2. UNCHANGED <<worker, written, generation, batch>>
  BY <1>1, ProducerFrame DEF sinkVars, workerVars
<1>3. OthersOnlyWake(p) /\ result'[Worker] = result[Worker]
  BY <1>1, StepWakes DEF OthersOnlyWake
<1>4. ASSUME Tagged(p)', Present(queue)',
             \A q \in Producers \ {p} :
               /\ logging'[q] = logging[q] /\ record'[q] = record[q]
               /\ value'[q] = value[q] /\ expected'[q] = expected[q]
      PROVE  IsolationInv'
  <2>1. \A q \in Producers : Tagged(q)'
    BY <1>1, <1>3, <1>4, OthersTagged DEF IsolationInv
  <2> QED
    BY <1>2, <1>3, <1>4, <2>1 DEF IsolationInv, Present
<1>5. ASSUME queue' = queue PROVE Present(queue)'
  BY <1>2, <1>5 DEF IsolationInv, Present
<1>6. ASSUME NEW number, NEW level, Capture(p, number, level) PROVE IsolationInv'
  <2>1. CASE /\ Q!GetGeneration(p)
             /\ record' = [record EXCEPT ![p] =
                              [by |-> p, number |-> number, level |-> level,
                               lifecycle |-> generation]]
             /\ logging' = [logging EXCEPT ![p] = "captured"]
    <3>1. /\ UNCHANGED <<queue, value, pc>> /\ pc[p] = "idle"
          /\ expected' = [expected EXCEPT ![p] = generation]
      BY <2>1 DEF Q!GetGeneration, Q!members
    <3>2. Tagged(p)'
      BY <1>1, <2>1, <3>1 DEF Tagged, Q!TypeOK, Q!NotFullStates
    <3> QED
      BY <1>1, <1>4, <1>5, <2>1, <3>1, <3>2 DEF Q!TypeOK
  <2>2. CASE logging' = [logging EXCEPT ![p] = "idle"] /\ UNCHANGED <<queueVars, record>>
    <3>1. Tagged(p)'
      BY <1>1, <2>2 DEF Tagged, queueVars, IsolationInv
    <3> QED
      BY <1>1, <1>4, <1>5, <2>2, <3>1 DEF queueVars
  <2> QED
    BY <1>6, <2>1, <2>2 DEF Capture
<1>7. CASE LogStatic(p) \/ \E level \in Levels : Log(p, level)
  BY <1>6, <1>7 DEF LogStatic, Log
<1>8. ASSUME NEW level \in Levels, ShouldLog(p, level) PROVE IsolationInv'
  <2>1. UNCHANGED queueVars
    BY <1>8 DEF ShouldLog
  <2>2. \/ UNCHANGED <<logging, record>>
        \/ /\ logging' = [logging EXCEPT ![p] = "admitted"]
           /\ \A q \in Producers \ {p} : record'[q] = record[q]
    BY <1>1, <1>8 DEF ShouldLog
  <2>3. Tagged(p)'
    BY <1>1, <2>1, <2>2 DEF Tagged, queueVars, IsolationInv
  <2> QED
    BY <1>1, <1>4, <1>5, <2>1, <2>2, <2>3 DEF queueVars
<1>9. ASSUME Pushes(p, value'[p], expected[p]), value'[p] \in LogRecord,
             value'[p].lifecycle = expected[p], expected' = expected,
             logging'[p] # "captured",
             \A q \in Producers \ {p} :
               /\ logging'[q] = logging[q] /\ record'[q] = record[q]
               /\ value'[q] = value[q]
      PROVE  IsolationInv'
  <2>1. Present(queue)'
    BY <1>1, <1>9, PushIsolated DEF IsolationInv, Q!TypeOK
  <2>2. Tagged(p)'
    BY <1>9 DEF Tagged
  <2> QED
    BY <1>4, <1>9, <2>1, <2>2
<1>10. CASE PushRecord(p)
  <2>1. /\ logging[p] = "captured" /\ Q!Push(p, record[p]) /\ record' = record
        /\ logging' = [logging EXCEPT ![p] = "idle"]
    BY <1>10 DEF PushRecord
  <2>2. /\ value' = [value EXCEPT ![p] = record[p]] /\ expected' = expected
        /\ Q!PushLocked(p, record[p], expected[p])
    BY <2>1 DEF Q!Push
  <2>3. value'[p] = record[p] /\ record[p].lifecycle = expected[p]
    BY <1>1, <2>1, <2>2 DEF IsolationInv, Tagged, Q!TypeOK
  <2>4. Pushes(p, record[p], expected[p])
    BY <1>1, <2>2, PushDoes DEF Q!TypeOK
  <2> QED
    BY <1>1, <1>9, <2>1, <2>2, <2>3, <2>4 DEF Q!TypeOK
<1>11. CASE ProducerQueueStep(p) /\ Q!PushWake(p)
  <2>1. /\ UNCHANGED <<logging, record, value, expected>> /\ pc[p] = "notFullWoken"
        /\ Q!AwaitRoom(p, value[p], expected[p])
    BY <1>11 DEF ProducerQueueStep, Q!PushWake
  <2>2. Pushes(p, value[p], expected[p])
    BY <1>1, <2>1, PushDoes DEF Q!TypeOK
  <2>3. value[p].lifecycle = expected[p]
    BY <2>1 DEF IsolationInv, Tagged, Q!NotFullStates
  <2>4. Present(queue)'
    BY <1>1, <2>2, <2>3, PushIsolated DEF IsolationInv, Q!TypeOK
  <2>5. Tagged(p)'
    BY <2>1, <2>3 DEF IsolationInv, Tagged
  <2> QED
    BY <1>4, <2>1, <2>4, <2>5
<1>12. CASE ProducerQueueStep(p) /\ Q!PushNotify(p)
  <2>1. UNCHANGED <<logging, record, value, expected, queue>>
    BY <1>12 DEF ProducerQueueStep, Q!PushNotify, Q!members
  <2>2. pc'[p] = "idle" \/ pc'[p] = "notEmptyWoken"
    BY <1>1, <1>12 DEF Q!PushNotify, Q!NotifyOne, Q!OnNotEmpty, Q!TypeOK
  <2>3. Tagged(p)'
    BY <2>1, <2>2 DEF IsolationInv, Tagged, Q!NotFullStates
  <2> QED
    BY <1>4, <1>5, <2>1, <2>3
<1> QED
  BY <1>7, <1>8, <1>10, <1>11, <1>12
  DEF ProducerStep, ProducerQueueStep, Q!ProducerStep

(* The elements that more adds to what a sink has got are all present ones *)
LEMMA WrittenPresent ==
  ASSUME SinkTypes, NEW more,
         \A i \in DOMAIN written : more[i] \in Seq(Q!Entry) /\ Present(more[i]),
         \A i \in DOMAIN written : Present(written[i]),
         written' = [i \in DOMAIN written |-> written[i] \o more[i]],
         generation' = generation
  PROVE  \A i \in DOMAIN written' : Present(written[i])'
<1> SUFFICES ASSUME NEW i \in DOMAIN written, NEW j \in 1..Len(written'[i])
             PROVE  written'[i][j].value.lifecycle = generation
  BY DEF Present
<1>1. /\ written[i] \in Seq(Q!Entry) /\ more[i] \in Seq(Q!Entry)
      /\ written'[i] = written[i] \o more[i]
  BY DEF SinkTypes
<1>2. /\ Len(written'[i]) = Len(written[i]) + Len(more[i])
      /\ Len(written[i]) \in Nat /\ Len(more[i]) \in Nat
      /\ \A m \in 1..Len(written[i]) + Len(more[i]) :
           written'[i][m] = IF m <= Len(written[i]) THEN written[i][m]
                            ELSE more[i][m - Len(written[i])]
  BY <1>1, ConcatProperties, LenProperties
<1>3. CASE j <= Len(written[i])
  BY <1>2, <1>3 DEF Present
<1>4. CASE j > Len(written[i])
  BY <1>2, <1>4 DEF Present
<1> QED
  BY <1>2, <1>3, <1>4

(* The steps of the worker: what it takes was in the queue, what it writes *)
(* is what it took.                                                        *)
LEMMA WorkerIsolated ==
  ASSUME TypeInv, IsolationInv, PlaceInv,
         \/ WorkerStep \/ WorkerTimeout \/ Tick
         \/ CloseNotify(Worker) \/ SpuriousWake(Worker)
  PROVE  IsolationInv'
<1>1. /\ Q!TypeOK /\ SinkTypes /\ Worker \in Q!Threads
      /\ batch[Worker] \in Seq(Q!Entry)
      /\ \A p \in Producers : p \in Q!Threads /\ p # Worker
  BY TypeParts, LoggerAssumption DEF Q!TypeOK, Q!Threads
<1>2. UNCHANGED <<logging, record, value, expected, generation>>
  BY <1>1, WorkerFrame
  DEF CloseNotify, SpuriousWake, Q!CloseNotify, Q!SpuriousWake, Q!members, OnlyQueue,
      producerVars
<1>3. \A p \in Producers : Tagged(p)'
  BY <1>1, <1>2, StepWakes, OthersTagged DEF IsolationInv
<1>4. ASSUME Present(queue)',
             worker' = "popping" /\ result'[Worker] = "values" => Present(batch[Worker])',
             \A i \in DOMAIN written' : Present(written[i])'
      PROVE  IsolationInv'
  BY <1>3, <1>4 DEF IsolationInv
<1>5. ASSUME queue' = queue PROVE Present(queue)'
  BY <1>2, <1>5 DEF IsolationInv, Present
<1>6. ASSUME written' = written PROVE \A i \in DOMAIN written' : Present(written[i])'
  BY <1>2, <1>6 DEF IsolationInv, Present
<1>7. CASE \/ WorkerStart \/ FlushAfterBatch \/ NoBatch \/ CheckClosed
           \/ WorkerFails \/ FinalFlush
  <2>1. UNCHANGED <<queue, written>> /\ worker' # "popping"
    BY <1>7
    DEF WorkerStart, FlushAfterBatch, NoBatch, CheckClosed, WorkerFails, FinalFlush,
        GoOn, FlushSinks, OnlyWorker, queueVars, NextRound, AfterNoBatch, AfterFault
  <2> QED
    BY <1>4, <1>5, <1>6, <2>1
<1>8. CASE WriteBatch
  <2>1. /\ worker = "popping" /\ result[Worker] = "values" /\ worker' # "popping"
        /\ queue' = queue
    BY <1>8 DEF WriteBatch, OnlyWorker, queueVars
  <2>2. Present(batch[Worker])
    BY <2>1 DEF IsolationInv
  <2>3. CASE written' = [i \in DOMAIN written |-> written[i] \o batch[Worker]]
    <3> DEFINE more == [i \in DOMAIN written |-> batch[Worker]]
    <3>1. /\ written' = [i \in DOMAIN written |-> written[i] \o more[i]]
          /\ \A i \in DOMAIN written : more[i] \in Seq(Q!Entry) /\ Present(more[i])
      BY <1>1, <2>2, <2>3
    <3> HIDE DEF more
    <3> QED
      BY <1>1, <1>2, <1>4, <1>5, <2>1, <3>1, WrittenPresent DEF IsolationInv
  <2>4. ASSUME NEW bad, NEW n \in 0..Len(batch[Worker]), written' = WrittenUntil(bad, n)
        PROVE  IsolationInv'
    <3> DEFINE part == SubSeq(batch[Worker], 1, n)
    <3> DEFINE more == [i \in DOMAIN written |->
                          IF i < bad THEN batch[Worker]
                          ELSE IF i = bad THEN part ELSE <<>>]
    <3>1. part \in Seq(Q!Entry) /\ Present(part)
      <4>1. \A i \in 1..Len(batch[Worker]) : batch[Worker][i] \in Q!Entry
        BY <1>1
      <4>2. /\ part \in Seq(Q!Entry)
            /\ \A i \in 1..Len(part) :
                 i \in 1..Len(batch[Worker]) /\ part[i] = batch[Worker][i]
        BY <1>1, <4>1, SubSeqProperties
      <4> HIDE DEF part
      <4> QED
        BY <2>2, <4>2 DEF Present
    <3>2. written' = [i \in DOMAIN written |-> written[i] \o more[i]]
      BY <2>4 DEF WrittenUntil
    <3> HIDE DEF part
    <3>3. \A i \in DOMAIN written : more[i] \in Seq(Q!Entry) /\ Present(more[i])
      <4>1. <<>> \in Seq(Q!Entry) /\ Present(<<>>)
        BY DEF Present
      <4> QED
        BY <1>1, <2>2, <3>1, <4>1
    <3> HIDE DEF more
    <3> QED
      BY <1>1, <1>2, <1>4, <1>5, <2>1, <3>2, <3>3, WrittenPresent DEF IsolationInv
  <2> QED
    BY <1>8, <2>3, <2>4 DEF WriteBatch
<1>9. ASSUME Takes(Worker), written' = written PROVE IsolationInv'
  <2>1. ASSUME NEW s, \A i \in 1..Len(s) : \E j \in 1..Len(queue) : s[i] = queue[j]
        PROVE  Present(s)
    BY <2>1 DEF IsolationInv, Present
  <2>2. Present(queue') /\ Present(batch'[Worker])
    BY <1>9, <2>1 DEF Takes
  <2>3. Present(queue)' /\ Present(batch[Worker])'
    BY <1>2, <2>2 DEF Present
  <2> QED
    BY <1>4, <1>6, <1>9, <2>3
<1>10. ASSUME queue' = queue, written' = written, result'[Worker] # "values"
       PROVE  IsolationInv'
  BY <1>4, <1>5, <1>6, <1>10
<1>11. CASE WorkerPop
  <2>1. /\ Q!Pop(Worker, IF Periodic THEN "popBatchFor" ELSE "popBatch",
                 config.writeBatchSize)
        /\ written' = written
    BY <1>11 DEF WorkerPop, sinkVars
  <2>2. config.writeBatchSize \in Nat \ {0}
    BY <2>1, ConfigType DEF Q!Pop, TypeInv, TypeOK
  <2>3. Takes(Worker) \/ Q!ParkOnNotEmpty(Worker)
    BY <1>1, <2>1, <2>2, TakeDoes DEF Q!Pop
  <2>4. Q!ParkOnNotEmpty(Worker) => queue' = queue /\ result'[Worker] = "none"
    BY <1>1 DEF Q!ParkOnNotEmpty, Q!Finish, Q!members, Q!TypeOK
  <2> QED
    BY <1>9, <1>10, <2>1, <2>3, <2>4
<1>12. CASE WorkerQueueStep /\ (Q!PopWake(Worker) \/ Q!PopTimedOut(Worker))
  <2>1. written' = written /\ maxCount[Worker] \in Nat \ {0}
    BY <1>1, <1>12 DEF WorkerQueueStep, OnlyQueue, sinkVars, Q!TypeOK
  <2>2. \/ Takes(Worker)
        \/ queue' = queue /\ result'[Worker] \in {"none", "noValues"}
    BY <1>1, <1>12, <2>1, TakeDoes
    DEF Q!PopWake, Q!PopTimedOut, Q!ParkOnNotEmpty, Q!Finish, Q!members, Q!TypeOK
  <2> QED
    BY <1>9, <1>10, <2>1, <2>2
<1>13. CASE \/ WorkerQueueStep /\ Q!PopNotify(Worker)
            \/ WorkerTimeout \/ Tick \/ CloseNotify(Worker) \/ SpuriousWake(Worker)
  <2>1. UNCHANGED <<queue, written, worker, result, batch>>
    BY <1>13
    DEF WorkerQueueStep, WorkerTimeout, Tick, CloseNotify, SpuriousWake, OnlyQueue,
        Q!PopNotify, Q!PopTimeout, Q!CloseNotify, Q!SpuriousWake, Q!members, queueVars,
        sinkVars, workerVars
  <2> QED
    BY <1>2, <1>4, <1>5, <1>6, <2>1 DEF IsolationInv, Present
<1>14. CASE WorkerCloses
  <2>1. UNCHANGED <<queue, written>> /\ worker' # "popping"
    BY <1>14 DEF WorkerCloses, Q!Close, AfterClose, sinkVars
  <2> QED
    BY <1>4, <1>5, <1>6, <2>1
<1> QED
  BY <1>7, <1>8, <1>11, <1>12, <1>13, <1>14
  DEF WorkerStep, WorkerQueueStep, Q!ConsumerStep

(* The steps of init() and stop(): a new generation starts with nothing.   *)
LEMMA ControlIsolated ==
  ASSUME TypeInv, IsolationInv, PlaceInv, NEW k \in Controllers,
         \/ Stop(k) \/ ControlStep(k)
         \/ \E cf \in Configs : InitCall(k, cf)
  PROVE  IsolationInv'
<1>1. /\ k \in Q!Threads /\ Worker \in Q!Threads \ {k}
      /\ \A p \in Producers : p \in Q!Threads /\ p # k
  BY LoggerAssumption DEF Q!Threads
<1>2. \A p \in Producers : Tagged(p)'
  BY <1>1, ControlFrame, StepWakes, OthersTagged DEF IsolationInv
<1>3. CASE InitReset(k)
  <2>1. queue' = <<>> /\ \A i \in DOMAIN written' : written'[i] = <<>>
    BY <1>3 DEF InitReset, Q!Reset
  <2>2. worker' # "popping"
    BY <1>3 DEF InitReset, PlaceInv, ControlPlaces, workerVars
  <2> QED
    BY <1>2, <2>1, <2>2 DEF IsolationInv, Present
<1>4. CASE ~InitReset(k)
  <2>1. UNCHANGED <<queue, generation, written, batch>>
    BY <1>4
    DEF Stop, InitCall, ControlStep, InitJoin, InitConfigure, InitSpawn, InitAbort,
        InitAborted, StopClose, StopJoin, queueVars, Q!Close, sinkVars
  <2>2. worker' = "popping" => worker = "popping"
    BY <1>4
    DEF Stop, InitCall, ControlStep, InitJoin, InitConfigure, InitSpawn, InitAbort,
        InitAborted, StopClose, StopJoin, JoinWorker, workerVars
  <2>3. result'[Worker] = result[Worker]
    BY <1>1, StepWakes DEF OthersOnlyWake
  <2> QED
    BY <1>2, <2>1, <2>2, <2>3 DEF IsolationInv, Present
<1> QED
  BY <1>3, <1>4

(* Every step keeps the tags and the lifecycles.                           *)
LEMMA NextIsolated == TypeInv /\ PlaceInv /\ IsolationInv /\ [Next]_vars => IsolationInv'
<1> SUFFICES ASSUME TypeInv, PlaceInv, IsolationInv, [Next]_vars PROVE IsolationInv'
  OBVIOUS
<1>1. ASSUME NEW t \in Q!Threads, t # Worker, CloseNotify(t) \/ SpuriousWake(t)
      PROVE  IsolationInv'
  <2>1. UNCHANGED <<queue, written, worker, result, batch, generation, logging, record,
                    value, expected>>
    BY <1>1
    DEF CloseNotify, SpuriousWake, OnlyQueue, Q!CloseNotify, Q!SpuriousWake,
        Q!members, sinkVars, workerVars, producerVars
  <2>2. pc \in [Q!Threads -> Q!States] /\ \A p \in Producers : p \in Q!Threads
    BY DEF TypeInv, TypeOK, Q!TypeOK, Q!Threads
  <2>3. ASSUME NEW p \in Producers, pc'[p] \in Q!NotFullStates
        PROVE  pc[p] \in Q!NotFullStates
    BY <1>1, <2>2, <2>3
    DEF CloseNotify, SpuriousWake, Q!CloseNotify, Q!SpuriousWake, Q!NotifyAll,
        Q!OnNotFull, Q!OnNotEmpty, Q!NotFullStates
  <2>4. \A p \in Producers : Tagged(p)'
    BY <2>1, <2>3 DEF IsolationInv, Tagged
  <2> QED
    BY <2>1, <2>4 DEF IsolationInv, Present
<1>2. ASSUME UNCHANGED <<queueVars, written, worker, logging, record>>
      PROVE  IsolationInv'
  BY <1>2 DEF queueVars, IsolationInv, Tagged, Present
<1>3. ASSUME NEW level \in Levels, SetLevel(level) PROVE IsolationInv'
  BY <1>2, <1>3 DEF SetLevel, sinkVars, workerVars, producerVars
<1>4. CASE UNCHANGED vars
  BY <1>2, <1>4 DEF vars, sinkVars, workerVars, producerVars
<1> QED
  BY <1>1, <1>3, <1>4, ProducerIsolated, WorkerIsolated, ControlIsolated DEF Next

(* Wherever a record is after a restart, in the queue, with the worker or  *)
(* in a sink, it was admitted in the present lifecycle: for any number of  *)
(* producers asleep or on their way across stop() and init().              *)
THEOREM LifecycleCorrect == Spec => []LifecycleIsolation
<1>1. Init => IsolationInv
  BY DEF Init, Q!Init, IsolationInv, Tagged, Present, Q!Threads, Q!NotFullStates
<1>2. TypeInv /\ IsolationInv => LifecycleIsolation
  <2> SUFFICES ASSUME TypeInv, IsolationInv PROVE LifecycleIsolation
    OBVIOUS
  <2>1. /\ queue \in Seq(Q!Entry) /\ batch[Worker] \in Seq(Q!Entry)
        /\ \A i \in DOMAIN written : written[i] \in Seq(Q!Entry)
    BY DEF TypeInv, TypeOK, Q!TypeOK
  <2>2. ASSUME NEW s \in Seq(Q!Entry), Present(s), NEW e \in ElementsOf(s)
        PROVE  e.value.lifecycle = generation
    BY <2>2 DEF Present, ElementsOf
  <2>3. InFlight \in Seq(Q!Entry) /\ Present(InFlight)
    BY <2>1 DEF IsolationInv, InFlight, Present
  <2>4. /\ Present(queue)
        /\ \A i \in DOMAIN written : Present(written[i])
    BY DEF IsolationInv
  <2> QED
    BY <2>1, <2>2, <2>3, <2>4 DEF LifecycleIsolation
<1> QED
  BY <1>1, <1>2, InitTypes, NextTypes, InitPlaces, NextPlaces, NextIsolated, PTL
  DEF Spec

--------------------------------------------------------------------------------
(* What the sinks have got, and in which order *)

Prefix(s, t) == Len(s) <= Len(t) /\ s = SubSeq(t, 1, Len(s))

(* A prefix agrees with the whole as far as it goes.                       *)
LEMMA PrefixAgrees ==
  ASSUME NEW S, NEW s \in Seq(S), NEW t \in Seq(S)
  PROVE  Prefix(s, t) <=> Len(s) <= Len(t) /\ \A m \in 1..Len(s) : s[m] = t[m]
<1>1. CASE Len(s) <= Len(t)
  <2>1. \A m \in 1..Len(s) : t[m] \in S
    BY <1>1
  <2>2. /\ SubSeq(t, 1, Len(s)) \in Seq(S) /\ Len(SubSeq(t, 1, Len(s))) = Len(s)
        /\ \A m \in 1..Len(s) : SubSeq(t, 1, Len(s))[m] = t[m]
    BY <1>1, <2>1, SubSeqProperties
  <2>3. s = SubSeq(t, 1, Len(s)) <=> \A m \in 1..Len(s) : s[m] = SubSeq(t, 1, Len(s))[m]
    BY <2>2, SeqEqual
  <2> QED
    BY <1>1, <2>2, <2>3 DEF Prefix
<1>2. CASE ~(Len(s) <= Len(t))
  BY <1>2 DEF Prefix
<1> QED
  BY <1>1, <1>2

(* Putting the same before a sequence and a prefix of it                   *)
LEMMA PrefixConcat ==
  ASSUME NEW S, NEW w \in Seq(S), NEW s \in Seq(S), NEW t \in Seq(S), Prefix(s, t)
  PROVE  Prefix(w \o s, w \o t)
<1>1. /\ w \o s \in Seq(S) /\ Len(w \o s) = Len(w) + Len(s)
      /\ \A m \in 1..Len(w) + Len(s) :
           (w \o s)[m] = IF m <= Len(w) THEN w[m] ELSE s[m - Len(w)]
  BY ConcatProperties
<1>2. /\ w \o t \in Seq(S) /\ Len(w \o t) = Len(w) + Len(t)
      /\ \A m \in 1..Len(w) + Len(t) :
           (w \o t)[m] = IF m <= Len(w) THEN w[m] ELSE t[m - Len(w)]
  BY ConcatProperties
<1>3. /\ Len(w) \in Nat /\ Len(s) \in Nat /\ Len(t) \in Nat
      /\ Len(s) <= Len(t) /\ \A m \in 1..Len(s) : s[m] = t[m]
  BY PrefixAgrees, LenProperties
<1>4. ASSUME NEW m \in 1..Len(w) + Len(s) PROVE (w \o s)[m] = (w \o t)[m]
  <2>1. CASE m <= Len(w)
    BY <1>1, <1>2, <1>3, <2>1
  <2>2. CASE m > Len(w)
    <3>1. m - Len(w) \in 1..Len(s) /\ m \in 1..Len(w) + Len(t) /\ ~(m <= Len(w))
      BY <1>3, <2>2
    <3>2. s[m - Len(w)] = t[m - Len(w)]
      BY <1>3, <3>1
    <3> QED
      BY <1>1, <1>2, <3>1, <3>2
  <2> QED
    BY <1>3, <2>1, <2>2
<1>5. Len(w \o s) <= Len(w \o t) /\ \A m \in 1..Len(w \o s) : (w \o s)[m] = (w \o t)[m]
  BY <1>1, <1>2, <1>3, <1>4
<1>6. w \o s \in Seq(S) /\ w \o t \in Seq(S)
  BY <1>1, <1>2
<1> QED
  BY <1>5, <1>6, PrefixAgrees

(* Until a sink throws every sink has got the same.  What is left when one *)
(* throws is in order because the sinks before it have got the whole batch *)
(* and those after it nothing.                                             *)
FanOutInv ==
  /\ DOMAIN written \subseteq Nat
  /\ worker \in Serving \ {"failing"} =>
       \A i, j \in DOMAIN written : written[i] = written[j]
  /\ \A i, j \in DOMAIN written : i < j => Prefix(written[j], written[i])

(* The loop of the worker over the sinks leaves each with a prefix of what *)
(* the one before it got, wherever one throws.                             *)
LEMMA WriteFansOut ==
  ASSUME TypeInv, FanOutInv, WriteBatch
  PROVE  FanOutInv'
<1>1. /\ SinkTypes /\ batch[Worker] \in Seq(Q!Entry) /\ worker = "popping"
      /\ \A i \in DOMAIN written : written[i] \in Seq(Q!Entry)
  BY TypeParts DEF Q!TypeOK, WriteBatch, SinkTypes
<1>2. \A i, j \in DOMAIN written : written[i] = written[j]
  BY <1>1 DEF FanOutInv, Serving
<1>3. CASE written' = [i \in DOMAIN written |-> written[i] \o batch[Worker]]
  <2>1. /\ DOMAIN written' = DOMAIN written
        /\ \A i, j \in DOMAIN written : written'[i] = written'[j]
    BY <1>2, <1>3
  <2>2. \A i \in DOMAIN written : Prefix(written'[i], written'[i])
    <3> SUFFICES ASSUME NEW i \in DOMAIN written PROVE Prefix(written'[i], written'[i])
      OBVIOUS
    <3>1. written'[i] \in Seq(Q!Entry)
      BY <1>1, <1>3, ConcatProperties
    <3> QED
      BY <3>1, PrefixAgrees, LenProperties
  <2> QED
    BY <2>1, <2>2 DEF FanOutInv
<1>4. ASSUME NEW bad \in DOMAIN written, NEW n \in 0..Len(batch[Worker]),
             written' = WrittenUntil(bad, n), worker' = "failing"
      PROVE  FanOutInv'
  <2> DEFINE part == SubSeq(batch[Worker], 1, n)
  <2> DEFINE more(i) == IF i < bad THEN batch[Worker] ELSE IF i = bad THEN part ELSE <<>>
  <2>1. /\ part \in Seq(Q!Entry) /\ Len(part) = n
        /\ \A m \in 1..Len(part) : part[m] = batch[Worker][m]
    <3>1. \A m \in 1..n : batch[Worker][m] \in Q!Entry
      BY <1>1
    <3> QED
      BY <3>1, SubSeqProperties
  <2>2. \A i \in DOMAIN written : written'[i] = written[i] \o more(i)
    BY <1>4 DEF WrittenUntil
  <2>3. DOMAIN written' = DOMAIN written
    BY <1>4 DEF WrittenUntil
  <2> HIDE DEF part
  <2>4. <<>> \in Seq(Q!Entry) /\ Len(<<>>) = 0
    OBVIOUS
  <2>5. ASSUME NEW s \in Seq(Q!Entry) PROVE Prefix(s, s) /\ Prefix(<<>>, s)
    <3>1. Len(s) \in Nat
      BY LenProperties
    <3>2. Prefix(s, s)
      BY <3>1, PrefixAgrees
    <3>3. Len(<<>>) <= Len(s) /\ \A m \in 1..Len(<<>>) : (<<>>)[m] = s[m]
      BY <2>4, <3>1
    <3> QED
      BY <2>4, <3>2, <3>3, PrefixAgrees
  <2>6. Prefix(part, batch[Worker])
    BY <1>1, <2>1, PrefixAgrees
  <2>7. ASSUME NEW i \in DOMAIN written, NEW j \in DOMAIN written, i < j
        PROVE  more(i) \in Seq(Q!Entry) /\ more(j) \in Seq(Q!Entry) /\ Prefix(more(j), more(i))
    <3>1. i \in Nat /\ j \in Nat /\ bad \in Nat
      BY DEF FanOutInv
    <3>2. CASE j < bad
      BY <1>1, <2>5, <2>7, <3>1, <3>2
    <3>3. CASE j = bad
      BY <1>1, <2>1, <2>6, <2>7, <3>1, <3>3
    <3>4. CASE j > bad
      <4>1. more(j) = <<>> /\ more(i) \in {batch[Worker], part, <<>>}
        BY <3>1, <3>4
      <4> HIDE DEF more
      <4>2. more(i) \in Seq(Q!Entry)
        BY <1>1, <2>1, <2>4, <4>1
      <4> QED
        BY <2>4, <2>5, <4>1, <4>2
    <3> QED
      BY <3>1, <3>2, <3>3, <3>4
  <2> HIDE DEF more
  <2>8. ASSUME NEW i \in DOMAIN written, NEW j \in DOMAIN written, i < j
        PROVE  Prefix(written'[j], written'[i])
    <3>1. written'[j] = written[i] \o more(j) /\ written'[i] = written[i] \o more(i)
      BY <1>2, <2>2
    <3> QED
      BY <1>1, <2>7, <2>8, <3>1, PrefixConcat
  <2> QED
    BY <1>4, <2>3, <2>8 DEF FanOutInv, Serving
<1> QED
  BY <1>3, <1>4 DEF WriteBatch

(* Nothing else gives the sinks anything; a new worker starts when they    *)
(* have got nothing.                                                       *)
LEMMA NextFansOut == TypeInv /\ PlaceInv /\ FanOutInv /\ [Next]_vars => FanOutInv'
<1> SUFFICES ASSUME TypeInv, PlaceInv, FanOutInv, [Next]_vars PROVE FanOutInv'
  OBVIOUS
<1>1. Q!TypeOK /\ SinkTypes /\ record \in [Producers -> LogRecord]
  BY TypeParts DEF ProducerTypes
<1>2. ASSUME written' = written,
             worker' \in Serving \ {"failing"} => worker \in Serving \ {"failing"}
      PROVE  FanOutInv'
  BY <1>2 DEF FanOutInv
<1>3. ASSUME NEW p \in Producers,
             \/ ProducerStep(p)
             \/ \E level \in Levels : ShouldLog(p, level) \/ Log(p, level)
      PROVE  FanOutInv'
  BY <1>1, <1>2, <1>3, ProducerFrame DEF sinkVars, workerVars
<1>4. ASSUME NEW level \in Levels, SetLevel(level) PROVE FanOutInv'
  BY <1>2, <1>4 DEF SetLevel, sinkVars, workerVars
<1>5. CASE WorkerStep \/ WorkerTimeout \/ Tick
  <2>1. CASE WriteBatch
    BY <2>1, WriteFansOut
  <2>2. CASE ~WriteBatch
    BY <1>2, <1>5, <2>2
    DEF WorkerStep, WorkerStart, WorkerPop, WorkerQueueStep, FlushAfterBatch, NoBatch,
        CheckClosed, WorkerFails, WorkerCloses, FinalFlush, WorkerTimeout, Tick,
        FlushSinks, GoOn, OnlyQueue, NextRound, AfterNoBatch, AfterFault, AfterClose,
        sinkVars, workerVars, Serving
  <2> QED
    BY <2>1, <2>2
<1>6. ASSUME NEW k \in Controllers,
             \/ Stop(k) \/ ControlStep(k)
             \/ \E cf \in Configs : InitCall(k, cf)
      PROVE  FanOutInv'
  <2>1. CASE InitReset(k)
    <3>1. /\ DOMAIN written' \subseteq Nat
          /\ \A i \in DOMAIN written' : written'[i] = <<>>
      BY <2>1 DEF InitReset
    <3>2. Prefix(<<>>, <<>>)
      BY DEF Prefix
    <3> QED
      BY <3>1, <3>2 DEF FanOutInv
  <2>2. CASE InitSpawn(k)
    <3>1. written' = written /\ \A i \in DOMAIN written : written[i] = <<>>
      BY <2>2 DEF InitSpawn, PlaceInv, ControlPlaces, sinkVars
    <3> QED
      BY <3>1 DEF FanOutInv
  <2>3. CASE ~(InitReset(k) \/ InitSpawn(k))
    <3>1. written' = written
      BY <1>6, <2>3
      DEF Stop, InitCall, ControlStep, InitJoin, InitConfigure, InitAbort, InitAborted,
          StopClose, StopJoin, sinkVars
    <3>2. worker' \in {worker, "none"}
      BY <1>6, <2>3
      DEF Stop, InitCall, ControlStep, InitJoin, InitConfigure, InitAbort, InitAborted,
          StopClose, StopJoin, JoinWorker, workerVars
    <3> QED
      BY <1>2, <3>1, <3>2 DEF Serving
  <2> QED
    BY <2>1, <2>2, <2>3
<1>7. ASSUME NEW t \in Q!Threads, CloseNotify(t) \/ SpuriousWake(t) PROVE FanOutInv'
  BY <1>2, <1>7 DEF CloseNotify, SpuriousWake, OnlyQueue, sinkVars, workerVars
<1>8. CASE UNCHANGED vars
  BY <1>2, <1>8 DEF vars, sinkVars, workerVars
<1> QED
  BY <1>3, <1>4, <1>5, <1>6, <1>7, <1>8 DEF Next

(* Every sink has got a prefix of what the sink before it has got, however *)
(* many sinks there are and wherever in a batch one of them has thrown.    *)
THEOREM FanOutCorrect == Spec => []FanOutInOrder
<1>1. Init => FanOutInv
  BY DEF Init, FanOutInv, Serving
<1>2. FanOutInv => FanOutInOrder
  BY DEF FanOutInv, FanOutInOrder, Prefix
<1> QED
  BY <1>1, <1>2, InitTypes, NextTypes, InitPlaces, NextPlaces, NextFansOut, PTL DEF Spec

--------------------------------------------------------------------------------
(* What the sinks have flushed *)

(* A record that no flush policy asks to have flushed at once              *)
Lazy(e) == e.value.level < config.flushAtOrAbove /\ config.flushPolicy # "EveryBatch"

Waiting(i) == flushed[i] + 1 .. Len(written[i])

(* The worker goes back to wait for records with lazy ones only left to    *)
(* flush.  Between the write and the flush decision there are also those   *)
(* of its batch.  The states at the end of workerLoop() that do not follow *)
(* the last flush are reached only after that flush has thrown.            *)
FlushInv ==
  /\ worker \in {"failingLast", "closingLast"} => fault = "flush"
  /\ worker \in {"none", "exited"} /\ fault # "flush" =>
       \A i \in DOMAIN written : flushed[i] = Len(written[i])
  /\ worker \in {"starting", "loop", "popping", "check"} =>
       \A i \in DOMAIN written : \A j \in Waiting(i) : Lazy(written[i][j])
  /\ worker = "written" =>
       \A i \in DOMAIN written : \A j \in Waiting(i) :
         \/ Lazy(written[i][j])
         \/ \E m \in DOMAIN batch[Worker] : written[i][j] = batch[Worker][m]

(* The batch that has been written to every sink makes up all that may     *)
(* have to be flushed.                                                     *)
LEMMA WriteKeepsFlushed ==
  ASSUME TypeInv, FlushInv, WriteBatch
  PROVE  FlushInv'
<1>1. /\ SinkTypes /\ batch[Worker] \in Seq(Q!Entry) /\ worker = "popping"
      /\ UNCHANGED <<flushed, config, batch>>
      /\ \A i \in DOMAIN written : written[i] \in Seq(Q!Entry)
  BY TypeParts DEF Q!TypeOK, WriteBatch, SinkTypes, OnlyWorker, queueVars
<1>2. CASE worker' = "failing"
  BY <1>2 DEF FlushInv
<1>3. CASE /\ written' = [i \in DOMAIN written |-> written[i] \o batch[Worker]]
           /\ worker' = "written"
  <2> SUFFICES \A i \in DOMAIN written : \A j \in flushed[i] + 1 .. Len(written'[i]) :
                 \/ Lazy(written'[i][j])
                 \/ \E m \in DOMAIN batch[Worker] : written'[i][j] = batch[Worker][m]
    <3>1. DOMAIN written' = DOMAIN written /\ worker' = "written"
      BY <1>3
    <3> QED
      BY <1>1, <3>1 DEF FlushInv, Waiting, Lazy
  <2> SUFFICES ASSUME NEW i \in DOMAIN written,
                      NEW j \in flushed[i] + 1 .. Len(written'[i])
               PROVE  \/ Lazy(written'[i][j])
                      \/ \E m \in DOMAIN batch[Worker] : written'[i][j] = batch[Worker][m]
    OBVIOUS
  <2>1. /\ Len(written[i]) \in Nat /\ Len(batch[Worker]) \in Nat
        /\ Len(written'[i]) = Len(written[i]) + Len(batch[Worker])
        /\ \A m \in 1..Len(written[i]) + Len(batch[Worker]) :
             written'[i][m] = IF m <= Len(written[i]) THEN written[i][m]
                              ELSE batch[Worker][m - Len(written[i])]
    BY <1>1, <1>3, ConcatProperties, LenProperties
  <2>2. flushed[i] \in Nat
    BY <1>1, <2>1 DEF SinkTypes
  <2>3. CASE j <= Len(written[i])
    <3>1. j \in Waiting(i) /\ written'[i][j] = written[i][j]
      BY <2>1, <2>2, <2>3 DEF Waiting
    <3> QED
      BY <1>1, <3>1 DEF FlushInv
  <2>4. CASE j > Len(written[i])
    <3>1. /\ j - Len(written[i]) \in DOMAIN batch[Worker]
          /\ written'[i][j] = batch[Worker][j - Len(written[i])]
      BY <1>1, <2>1, <2>2, <2>4
    <3> QED
      BY <3>1
  <2> QED
    BY <2>1, <2>2, <2>3, <2>4
<1> QED
  BY <1>2, <1>3 DEF WriteBatch

(* A flush that does not throw leaves nothing to flush.                    *)
LEMMA FlushesAll ==
  ASSUME SinkTypes, NEW next, NEW afterThrow, FlushSinks(next, afterThrow)
  PROVE  \/ /\ worker' = next /\ UNCHANGED <<written, fault>>
            /\ \A i \in DOMAIN written' : flushed'[i] = Len(written'[i])
            /\ \A i \in DOMAIN written' : Waiting(i)' = {}
         \/ worker' = afterThrow /\ fault' = "flush" /\ written' = written
<1>1. CASE /\ flushed' = [i \in DOMAIN written |-> Len(written[i])]
           /\ worker' = next
           /\ UNCHANGED <<written, fault>>
  <2>1. \A i \in DOMAIN written' : flushed'[i] = Len(written'[i]) /\ Len(written'[i]) \in Nat
    BY <1>1, LenProperties DEF SinkTypes
  <2>2. \A i \in DOMAIN written' : Waiting(i)' = {}
    BY <2>1 DEF Waiting
  <2> QED
    BY <1>1, <2>1, <2>2
<1> QED
  BY <1>1 DEF FlushSinks

(* The flush decision: without a flush the whole batch is lazy.            *)
LEMMA DecisionKeepsFlushed ==
  ASSUME TypeInv, FlushInv, FlushAfterBatch
  PROVE  FlushInv'
<1>1. /\ SinkTypes /\ batch[Worker] \in Seq(Q!Entry) /\ worker = "written"
      /\ config' = config /\ batch' = batch
  BY TypeParts DEF Q!TypeOK, FlushAfterBatch, GoOn, OnlyWorker, queueVars
<1>2. CASE ~FlushNow /\ GoOn(NextRound)
  <2>1. \A m \in DOMAIN batch[Worker] : Lazy(batch[Worker][m])
    <3> SUFFICES ASSUME NEW m \in DOMAIN batch[Worker]
                 PROVE  /\ batch[Worker][m].value.level < config.flushAtOrAbove
                        /\ config.flushPolicy # "EveryBatch"
      BY DEF Lazy
    <3>1. /\ ~(batch[Worker][m].value.level >= config.flushAtOrAbove)
          /\ config.flushPolicy # "EveryBatch"
      BY <1>2 DEF FlushNow, FlushForLevel
    <3>2. batch[Worker][m].value.level \in Nat /\ config.flushAtOrAbove \in Nat
      <4>1. batch[Worker][m] \in Q!Entry /\ config \in Configs
        BY <1>1 DEF TypeInv, TypeOK
      <4>2. batch[Worker][m].value.level \in Levels
        BY <4>1 DEF Q!Entry, LogRecord
      <4> QED
        BY <4>1, <4>2, ConfigType, LoggerAssumption
    <3> QED
      BY <3>1, <3>2
  <2>2. worker' = "loop" /\ UNCHANGED <<written, flushed, fault>>
    BY <1>2 DEF GoOn, NextRound
  <2>3. \A i \in DOMAIN written : \A j \in Waiting(i) : Lazy(written[i][j])
    BY <1>1, <2>1 DEF FlushInv
  <2> QED
    BY <1>1, <2>2, <2>3 DEF FlushInv, Waiting, Lazy
<1>3. CASE FlushSinks(NextRound, "failing")
  <2>1. \/ worker' = "loop" /\ \A i \in DOMAIN written' : Waiting(i)' = {}
        \/ worker' = "failing"
    BY <1>1, <1>3, FlushesAll DEF NextRound
  <2> QED
    BY <2>1 DEF FlushInv
<1> QED
  BY <1>2, <1>3 DEF FlushAfterBatch

(* The steps of the worker go back to the wait only with lazy records left *)
(* unflushed.                                                              *)
LEMMA WorkerKeepsFlushed ==
  ASSUME TypeInv, PlaceInv, FlushInv, WorkerStep \/ WorkerTimeout \/ Tick
  PROVE  FlushInv'
<1>1. SinkTypes /\ Q!TypeOK
  BY TypeParts
<1>2. config' = config
  BY <1>1, WorkerFrame
<1>3. CASE WriteBatch \/ FlushAfterBatch
  BY <1>3, WriteKeepsFlushed, DecisionKeepsFlushed
<1>4. CASE NoBatch
  <2>1. worker = "popping"
    BY <1>4 DEF NoBatch
  <2>2. CASE GoOn("check")
    BY <1>2, <2>1, <2>2 DEF GoOn, FlushInv, Waiting, Lazy
  <2>3. CASE FlushSinks("check", "failing")
    <3>1. \/ worker' = "check" /\ \A i \in DOMAIN written' : Waiting(i)' = {}
          \/ worker' = "failing"
      BY <1>1, <2>3, FlushesAll
    <3> QED
      BY <3>1 DEF FlushInv
  <2> QED
    BY <1>4, <2>2, <2>3 DEF NoBatch
<1>5. CASE FinalFlush
  <2>1. FlushSinks("exited", "failingLast")
    BY <1>5 DEF FinalFlush
  <2> QED
    BY <1>1, <2>1, FlushesAll DEF FlushInv
<1>6. CASE WorkerStart
  <2>1. worker = "starting" /\ (GoOn("loop") \/ worker' = "failing")
    BY <1>6 DEF WorkerStart
  <2> QED
    BY <1>2, <2>1 DEF GoOn, FlushInv, Waiting, Lazy
<1>7. CASE WorkerPop \/ WorkerQueueStep \/ WorkerTimeout
  <2>1. \/ worker \in {"loop", "popping"} /\ worker' = "popping"
        \/ worker' = worker /\ batch' = batch
    <3>1. CASE WorkerPop
      BY <3>1 DEF WorkerPop
    <3>2. CASE WorkerQueueStep /\ (Q!PopWake(Worker) \/ Q!PopTimedOut(Worker))
      <4>1. pc[Worker] \in Q!NotEmptyStates
        BY <3>2 DEF Q!PopWake, Q!PopTimedOut, Q!NotEmptyStates
      <4> QED
        BY <3>2, <4>1
        DEF PlaceInv, WorkerPlaces, WorkerQueueStep, OnlyQueue, workerVars
    <3>3. CASE (WorkerQueueStep /\ Q!PopNotify(Worker)) \/ WorkerTimeout
      BY <3>3
      DEF WorkerQueueStep, WorkerTimeout, OnlyQueue, workerVars, Q!PopNotify,
          Q!PopTimeout, Q!members
    <3> QED
      BY <1>7, <3>1, <3>2, <3>3 DEF WorkerQueueStep, Q!ConsumerStep
  <2>2. UNCHANGED <<written, flushed, fault>>
    BY <1>7 DEF WorkerPop, WorkerQueueStep, WorkerTimeout, OnlyQueue, sinkVars
  <2> QED
    BY <1>2, <2>1, <2>2 DEF FlushInv, Waiting, Lazy
<1>8. CASE Tick
  BY <1>2, <1>8 DEF Tick, queueVars, sinkVars, FlushInv, Waiting, Lazy
<1>9. CASE CheckClosed
  <2>1. /\ worker = "check" /\ worker' \in {"loop", "finalFlush"}
        /\ UNCHANGED <<written, flushed, fault>>
    BY <1>9 DEF CheckClosed, GoOn, AfterNoBatch
  <2> QED
    BY <1>2, <2>1 DEF FlushInv, Waiting, Lazy
<1>10. CASE WorkerFails \/ WorkerCloses
  <2>1. /\ \/ worker \in {"failing", "closing"} /\ worker' \in {"closing", "finalFlush"}
           \/ /\ worker \in {"failingLast", "closingLast"}
              /\ worker' \in {"closingLast", "exited"}
        /\ fault' = fault
    BY <1>10 DEF WorkerFails, WorkerCloses, AfterFault, AfterClose, sinkVars
  <2> QED
    BY <2>1 DEF FlushInv
<1> QED
  BY <1>3, <1>4, <1>5, <1>6, <1>7, <1>8, <1>9, <1>10 DEF WorkerStep

(* Nobody but the worker writes or flushes; a new one starts when nothing  *)
(* has been written.                                                       *)
LEMMA NextKeepsFlushed == TypeInv /\ PlaceInv /\ FlushInv /\ [Next]_vars => FlushInv'
<1> SUFFICES ASSUME TypeInv, PlaceInv, FlushInv, [Next]_vars PROVE FlushInv'
  OBVIOUS
<1>1. Q!TypeOK /\ SinkTypes /\ record \in [Producers -> LogRecord]
  BY TypeParts DEF ProducerTypes
<1>2. ASSUME UNCHANGED <<written, flushed, fault, worker, config, batch>>
      PROVE  FlushInv'
  BY <1>2 DEF FlushInv, Waiting, Lazy
<1>3. ASSUME NEW p \in Producers,
             \/ ProducerStep(p)
             \/ \E level \in Levels : ShouldLog(p, level) \/ Log(p, level)
      PROVE  FlushInv'
  BY <1>1, <1>2, <1>3, ProducerFrame DEF settingVars, sinkVars, workerVars
<1>4. ASSUME NEW level \in Levels, SetLevel(level) PROVE FlushInv'
  BY <1>2, <1>4 DEF SetLevel, queueVars, sinkVars, workerVars
<1>5. ASSUME NEW k \in Controllers,
             \/ Stop(k) \/ ControlStep(k)
             \/ \E cf \in Configs : InitCall(k, cf)
      PROVE  FlushInv'
  <2>1. CASE InitReset(k)
    <3>1. worker' = "none"
      BY <2>1 DEF InitReset, PlaceInv, ControlPlaces, workerVars
    <3>2. /\ DOMAIN written' = 1..request[k].sinks
          /\ \A i \in DOMAIN written' : written'[i] = <<>> /\ flushed'[i] = 0
      BY <2>1 DEF InitReset
    <3>3. \A i \in DOMAIN written' : flushed'[i] = Len(written'[i])
      BY <3>2
    <3> QED
      BY <3>1, <3>3 DEF FlushInv
  <2>2. CASE InitSpawn(k)
    <3>1. /\ UNCHANGED <<written, flushed, fault, config>>
          /\ worker' = "starting" \/ worker' = worker
          /\ worker = "none"
          /\ \A i \in DOMAIN written : written[i] = <<>>
      BY <2>2
      DEF InitSpawn, PlaceInv, ControlPlaces, sinkVars, workerVars
    <3>2. \A i \in DOMAIN written : Waiting(i)' = {}
      <4>1. \A i \in DOMAIN written : Len(written[i]) = 0 /\ flushed[i] = 0
        BY <1>1, <3>1 DEF SinkTypes
      <4> QED
        BY <3>1, <4>1 DEF Waiting
    <3> QED
      BY <3>1, <3>2 DEF FlushInv
  <2>3. CASE InitConfigure(k)
    <3>1. /\ worker = "none" /\ worker' = worker
          /\ UNCHANGED <<written, flushed, fault>>
      BY <2>3 DEF InitConfigure, PlaceInv, ControlPlaces, workerVars
    <3> QED
      BY <3>1 DEF FlushInv
  <2>4. CASE InitJoin(k) \/ StopJoin(k)
    <3>1. /\ worker \in {"none", "exited"} /\ worker' = "none"
          /\ UNCHANGED <<written, flushed, fault>>
      BY <2>4 DEF InitJoin, StopJoin, JoinWorker, Joinable, Exited
    <3> QED
      BY <3>1 DEF FlushInv
  <2>5. CASE \/ Stop(k) \/ InitAbort(k) \/ InitAborted(k) \/ StopClose(k)
             \/ \E cf \in Configs : InitCall(k, cf)
    BY <1>2, <2>5
    DEF Stop, InitCall, InitAbort, InitAborted, StopClose, queueVars, settingVars,
        sinkVars, workerVars, Q!Close
  <2> QED
    BY <1>5, <2>1, <2>2, <2>3, <2>4, <2>5 DEF ControlStep
<1>6. ASSUME NEW t \in Q!Threads, CloseNotify(t) \/ SpuriousWake(t) PROVE FlushInv'
  BY <1>2, <1>6
  DEF CloseNotify, SpuriousWake, OnlyQueue, settingVars, sinkVars, workerVars,
      Q!CloseNotify, Q!SpuriousWake, Q!members
<1>7. CASE UNCHANGED vars
  BY <1>2, <1>7 DEF vars, queueVars, settingVars, sinkVars, workerVars
<1> QED
  BY <1>3, <1>4, <1>5, <1>6, <1>7, WorkerKeepsFlushed DEF Next

(* FlushInv holds in every reachable state.                                *)
LEMMA FlushCorrect == Spec => []FlushInv
<1>1. Init => FlushInv
  BY DEF Init, FlushInv
<1> QED
  BY <1>1, InitTypes, NextTypes, InitPlaces, NextPlaces, NextKeepsFlushed, PTL DEF Spec

(* Once the worker has gone every sink has flushed all it got, unless a    *)
(* flush has thrown: whatever was thrown in the writes before.             *)
THEOREM ExitCorrect == Spec => []FlushedAtExit
<1>1. FlushInv => FlushedAtExit
  BY DEF FlushInv, FlushedAtExit
<1> QED
  BY <1>1, FlushCorrect, PTL

(* Before the worker sleeps, each record at or above flushAtOrAbove is     *)
(* flushed, wherever in its batch it was, and under EveryBatch every one.  *)
THEOREM SleepCorrect == Spec => []FlushedBeforeSleep
<1>1. FlushInv => FlushedBeforeSleep
  BY DEF FlushInv, FlushedBeforeSleep, Waiting, Lazy
<1> QED
  BY <1>1, FlushCorrect, PTL

--------------------------------------------------------------------------------
(***************************************************************************)
(* II. What is accepted is neither duplicated nor reordered, and lost only *)
(* where the code says so.                                                 *)
(***************************************************************************)

(* InOrder                                                                 *)

(* A sequence is in order with itself.                                     *)
LEMMA InOrderItself == ASSUME NEW S, NEW s \in Seq(S) PROVE InOrder(s, s)
BY DEF InOrder

(* The empty sequence is in order with any other.                          *)
LEMMA InOrderEmpty == ASSUME NEW t PROVE InOrder(<<>>, t)
BY DEF InOrder

(* What is in order with something that is in order with t is in order     *)
(* with t.                                                                 *)
LEMMA InOrderThrough ==
  ASSUME NEW r, NEW s, NEW t, InOrder(r, s), InOrder(s, t)
  PROVE  InOrder(r, t)
<1> SUFFICES ASSUME NEW j \in DOMAIN r, NEW k \in DOMAIN r
             PROVE  \E c, d \in DOMAIN t :
                      t[c] = r[j] /\ t[d] = r[k] /\ (j < k => c < d)
  BY DEF InOrder
<1>1. PICK a \in DOMAIN s, b \in DOMAIN s :
        s[a] = r[j] /\ s[b] = r[k] /\ (j < k => a < b)
  BY DEF InOrder
<1>2. PICK c \in DOMAIN t, d \in DOMAIN t :
        t[c] = s[a] /\ t[d] = s[b] /\ (a < b => c < d)
  BY DEF InOrder
<1> QED
  BY <1>1, <1>2

(* InOrder() with the domains of sequences spelt out                       *)
FoundInOrder(s, t) ==
  \A j, k \in 1..Len(s) : \E a, b \in 1..Len(t) :
    t[a] = s[j] /\ t[b] = s[k] /\ (j < k => a < b)

(* Two members of s are found at two places of t, in the same order.       *)
LEMMA InOrderPlaces ==
  ASSUME NEW S, NEW s \in Seq(S), NEW t \in Seq(S), InOrder(s, t)
  PROVE  FoundInOrder(s, t)
<1> SUFFICES ASSUME NEW j \in 1..Len(s), NEW k \in 1..Len(s)
             PROVE  \E a, b \in 1..Len(t) :
                      t[a] = s[j] /\ t[b] = s[k] /\ (j < k => a < b)
  BY DEF FoundInOrder
<1>1. j \in DOMAIN s /\ k \in DOMAIN s
  OBVIOUS
<1>2. PICK a \in DOMAIN t, b \in DOMAIN t :
        t[a] = s[j] /\ t[b] = s[k] /\ (j < k => a < b)
  BY <1>1 DEF InOrder
<1>3. a \in 1..Len(t) /\ b \in 1..Len(t)
  OBVIOUS
<1> QED
  BY <1>2, <1>3

(* Two sequences in order with two others, one after the other             *)
LEMMA InOrderConcat ==
  ASSUME NEW S, NEW r \in Seq(S), NEW s \in Seq(S), NEW t \in Seq(S), NEW u \in Seq(S),
         InOrder(r, t), InOrder(s, u)
  PROVE  InOrder(r \o s, t \o u)
<1> DEFINE rs == r \o s
           tu == t \o u
           m == Len(r)
           n == Len(t)
<1>1. /\ m \in Nat /\ n \in Nat /\ Len(s) \in Nat /\ Len(u) \in Nat
      /\ DOMAIN r = 1..m /\ DOMAIN t = 1..n
      /\ DOMAIN s = 1..Len(s) /\ DOMAIN u = 1..Len(u)
  OBVIOUS
<1>2. /\ DOMAIN rs = 1..m + Len(s)
      /\ \A j \in 1..m + Len(s) : rs[j] = IF j <= m THEN r[j] ELSE s[j - m]
  BY ConcatProperties
<1>3. /\ DOMAIN tu = 1..n + Len(u)
      /\ \A a \in 1..n + Len(u) : tu[a] = IF a <= n THEN t[a] ELSE u[a - n]
  BY ConcatProperties
<1>4. /\ \A a \in 1..n : a \in DOMAIN tu /\ tu[a] = t[a]
      /\ \A a \in 1..Len(u) : a + n \in DOMAIN tu /\ tu[a + n] = u[a]
  BY <1>1, <1>3
<1>5. \A j, k \in 1..m : \E a, b \in 1..n :
        t[a] = r[j] /\ t[b] = r[k] /\ (j < k => a < b)
  <2>1. FoundInOrder(r, t)
    BY InOrderPlaces
  <2> QED
    BY <2>1 DEF FoundInOrder
<1>6. \A j, k \in 1..Len(s) : \E a, b \in 1..Len(u) :
        u[a] = s[j] /\ u[b] = s[k] /\ (j < k => a < b)
  <2>1. FoundInOrder(s, u)
    BY InOrderPlaces
  <2> QED
    BY <2>1 DEF FoundInOrder
<1> HIDE DEF rs, tu, m, n
<1> SUFFICES ASSUME NEW j \in DOMAIN rs, NEW k \in DOMAIN rs
             PROVE  \E a, b \in DOMAIN tu :
                      tu[a] = rs[j] /\ tu[b] = rs[k] /\ (j < k => a < b)
  BY DEF InOrder, rs, tu
<1>7. /\ j \in 1..m + Len(s) /\ k \in 1..m + Len(s)
      /\ rs[j] = IF j <= m THEN r[j] ELSE s[j - m]
      /\ rs[k] = IF k <= m THEN r[k] ELSE s[k - m]
  BY <1>2
<1>8. CASE j <= m /\ k <= m
  <2>1. j \in 1..m /\ k \in 1..m
    BY <1>1, <1>7, <1>8
  <2>2. PICK a \in 1..n, b \in 1..n : t[a] = r[j] /\ t[b] = r[k] /\ (j < k => a < b)
    BY <1>5, <2>1
  <2> QED
    BY <1>4, <1>7, <1>8, <2>2
<1>9. CASE ~(j <= m) /\ ~(k <= m)
  <2>1. j - m \in 1..Len(s) /\ k - m \in 1..Len(s) /\ (j < k => j - m < k - m)
    BY <1>1, <1>7, <1>9
  <2>2. PICK a \in 1..Len(u), b \in 1..Len(u) :
          u[a] = s[j - m] /\ u[b] = s[k - m] /\ (j - m < k - m => a < b)
    BY <1>6, <2>1
  <2>3. /\ a + n \in DOMAIN tu /\ tu[a + n] = rs[j]
        /\ b + n \in DOMAIN tu /\ tu[b + n] = rs[k]
    BY <1>4, <1>7, <1>9, <2>2
  <2>4. j < k => a + n < b + n
    BY <1>1, <2>1, <2>2
  <2> QED
    BY <2>3, <2>4
<1>10. ASSUME NEW x \in DOMAIN rs, NEW y \in DOMAIN rs, x <= m, ~(y <= m)
       PROVE  \E a, b \in DOMAIN tu : tu[a] = rs[x] /\ tu[b] = rs[y] /\ a < b
  <2>1. /\ x \in 1..m /\ y - m \in 1..Len(s)
        /\ rs[x] = r[x] /\ rs[y] = s[y - m]
    BY <1>1, <1>2, <1>10
  <2>2. PICK a \in 1..n : t[a] = r[x]
    BY <1>5, <2>1
  <2>3. PICK b \in 1..Len(u) : u[b] = s[y - m]
    BY <1>6, <2>1
  <2>4. /\ a \in DOMAIN tu /\ tu[a] = rs[x]
        /\ b + n \in DOMAIN tu /\ tu[b + n] = rs[y]
    BY <1>4, <2>1, <2>2, <2>3
  <2>5. a < b + n
    BY <1>1
  <2> QED
    BY <2>4, <2>5
<1>11. CASE j <= m /\ ~(k <= m)
  BY <1>10, <1>11
<1>12. CASE ~(j <= m) /\ k <= m
  <2>1. PICK a \in DOMAIN tu, b \in DOMAIN tu : tu[a] = rs[k] /\ tu[b] = rs[j]
    BY <1>10, <1>12
  <2>2. ~(j < k)
    BY <1>1, <1>7, <1>12
  <2> QED
    BY <2>1, <2>2
<1> QED
  BY <1>8, <1>9, <1>11, <1>12

(* The parts of a sequence are in order with it.                           *)
LEMMA InOrderPart ==
  ASSUME NEW S, NEW s \in Seq(S), NEW m \in Nat \ {0}, NEW n \in 0..Len(s)
  PROVE  InOrder(SubSeq(s, m, n), s)
<1> DEFINE r == SubSeq(s, m, n)
<1>1. \A i \in 1..Len(s) : s[i] \in S
  OBVIOUS
<1>2. /\ DOMAIN r = 1..IF m <= n THEN n - m + 1 ELSE 0
      /\ \A i \in 1..(n - m + 1) : r[i] = s[m + i - 1]
  BY <1>1, SubSeqProperties
<1>3. /\ Len(s) \in Nat /\ DOMAIN s = 1..Len(s)
  OBVIOUS
<1> HIDE DEF r
<1>4. ASSUME NEW i \in DOMAIN r
      PROVE  m + i - 1 \in DOMAIN s /\ r[i] = s[m + i - 1] /\ i \in Nat
  BY <1>2, <1>3
<1>5. ASSUME NEW j \in DOMAIN r, NEW k \in DOMAIN r
      PROVE  \E a, b \in DOMAIN s : s[a] = r[j] /\ s[b] = r[k] /\ (j < k => a < b)
  <2>1. j < k => m + j - 1 < m + k - 1
    BY <1>4
  <2> QED
    BY <1>4, <2>1
<1> QED
  BY <1>5 DEF InOrder, r

(* The same element appended to both.                                      *)
LEMMA InOrderAppend ==
  ASSUME NEW S, NEW s \in Seq(S), NEW t \in Seq(S), NEW e \in S, InOrder(s, t)
  PROVE  InOrder(Append(s, e), Append(t, e))
<1>1. <<e>> \in Seq(S)
  OBVIOUS
<1>2. InOrder(<<e>>, <<e>>)
  BY <1>1, InOrderItself
<1>3. Append(s, e) = s \o <<e>> /\ Append(t, e) = t \o <<e>>
  BY AppendIsConcat
<1> QED
  BY <1>1, <1>2, <1>3, InOrderConcat

--------------------------------------------------------------------------------
(* What a step does to the accepted records that a sink can still get      *)

Kept(i) == written[i] \o InFlight \o queue

(* How many accepted records are gone although no sink has thrown          *)
Dropped == IF overflowPolicy = "DropOldest" THEN droppedCount ELSE 0

(* The second part of Conservation                                         *)
ConservedInv ==
  \A i \in DOMAIN written :
    /\ InOrder(Kept(i), accepted)
    /\ fault = "none" => Len(accepted) - Len(Kept(i)) = Dropped

(* A step hands records on, ...                                            *)
HandsOn ==
  /\ DOMAIN written' = DOMAIN written
  /\ \A i \in DOMAIN written : Kept(i)' = Kept(i)
  /\ accepted' = accepted /\ Dropped' = Dropped
  /\ fault' = "none" => fault = "none"

(* ... or accepts one, ...                                                 *)
Admits(e) ==
  /\ DOMAIN written' = DOMAIN written
  /\ \A i \in DOMAIN written : Kept(i)' = Append(Kept(i), e)
  /\ accepted' = Append(accepted, e)
  /\ UNCHANGED <<Dropped, fault>>

(* ... in place of another one if it has to, ...                           *)
Replaces(e) ==
  /\ DOMAIN written' = DOMAIN written
  /\ \A i \in DOMAIN written : \E rest \in Seq(Q!Entry) :
       /\ InOrder(rest, Kept(i)) /\ Len(rest) = Len(Kept(i)) - 1
       /\ Kept(i)' = Append(rest, e)
  /\ accepted' = Append(accepted, e)
  /\ Dropped' = Dropped + 1
  /\ fault' = fault

(* ... or loses some to a fault, ...                                       *)
Loses ==
  /\ DOMAIN written' = DOMAIN written
  /\ \A i \in DOMAIN written : InOrder(Kept(i)', Kept(i))
  /\ accepted' = accepted
  /\ fault' # "none"

(* ... or starts afresh.                                                   *)
StartsAfresh ==
  /\ \A i \in DOMAIN written' : Kept(i)' = <<>>
  /\ accepted' = <<>> /\ Dropped' = 0

Flows ==
  \/ HandsOn \/ Loses \/ StartsAfresh
  \/ \E e \in Q!Entry : Admits(e) \/ Replaces(e)

(* What a sink can get is a sequence of elements.                          *)
LEMMA KeptType ==
  ASSUME TypeInv
  PROVE  /\ InFlight \in Seq(Q!Entry) /\ queue \in Seq(Q!Entry)
         /\ \A i \in DOMAIN written :
              written[i] \in Seq(Q!Entry) /\ Kept(i) \in Seq(Q!Entry)
         /\ Dropped \in Nat /\ accepted \in Seq(Q!Entry)
<1>1. batch[Worker] \in Seq(Q!Entry) /\ queue \in Seq(Q!Entry) /\ droppedCount \in Nat
  BY DEF TypeInv, TypeOK, Q!TypeOK
<1>2. /\ \A i \in DOMAIN written : written[i] \in Seq(Q!Entry)
      /\ accepted \in Seq(Q!Entry)
  BY DEF TypeInv, TypeOK
<1>3. InFlight \in Seq(Q!Entry)
  BY <1>1 DEF InFlight
<1>4. \A i \in DOMAIN written : Kept(i) \in Seq(Q!Entry)
  BY <1>1, <1>2, <1>3, ConcatProperties DEF Kept
<1> QED
  BY <1>1, <1>2, <1>3, <1>4 DEF Dropped

(* Every such step keeps what remains in order, and the count.             *)
LEMMA FlowsKeep ==
  ASSUME TypeInv, TypeInv', ConservedInv, Flows
  PROVE  ConservedInv'
<1>1. /\ Dropped \in Nat /\ accepted \in Seq(Q!Entry)
      /\ \A i \in DOMAIN written : Kept(i) \in Seq(Q!Entry)
  BY KeptType
<1>2. /\ Len(accepted) \in Nat
      /\ \A i \in DOMAIN written : Len(Kept(i)) \in Nat
  BY <1>1
<1>3. CASE HandsOn
  BY <1>3 DEF HandsOn, ConservedInv
<1>4. CASE Loses
  BY <1>4, InOrderThrough DEF Loses, ConservedInv
<1>5. CASE StartsAfresh
  BY <1>5, InOrderEmpty DEF StartsAfresh, ConservedInv
<1>6. ASSUME NEW e \in Q!Entry, Admits(e) PROVE ConservedInv'
  <2> SUFFICES ASSUME NEW i \in DOMAIN written
               PROVE  /\ InOrder(Append(Kept(i), e), Append(accepted, e))
                      /\ fault = "none" =>
                           Len(Append(accepted, e)) - Len(Append(Kept(i), e)) = Dropped
    BY <1>6 DEF Admits, ConservedInv
  <2>1. InOrder(Append(Kept(i), e), Append(accepted, e))
    BY <1>1, InOrderAppend DEF ConservedInv
  <2>2. /\ Len(Append(accepted, e)) = Len(accepted) + 1
        /\ Len(Append(Kept(i), e)) = Len(Kept(i)) + 1
    BY <1>1, AppendProperties
  <2>3. fault = "none" => Len(accepted) - Len(Kept(i)) = Dropped
    BY DEF ConservedInv
  <2> QED
    BY <1>1, <1>2, <2>1, <2>2, <2>3
<1>7. ASSUME NEW e \in Q!Entry, Replaces(e) PROVE ConservedInv'
  <2> SUFFICES ASSUME NEW i \in DOMAIN written, NEW rest \in Seq(Q!Entry),
                      InOrder(rest, Kept(i)), Len(rest) = Len(Kept(i)) - 1
               PROVE  /\ InOrder(Append(rest, e), Append(accepted, e))
                      /\ fault = "none" =>
                           Len(Append(accepted, e)) - Len(Append(rest, e)) = Dropped + 1
    BY <1>7 DEF Replaces, ConservedInv
  <2>1. InOrder(rest, accepted)
    BY InOrderThrough DEF ConservedInv
  <2>2. InOrder(Append(rest, e), Append(accepted, e))
    BY <1>1, <2>1, InOrderAppend
  <2>3. /\ Len(Append(accepted, e)) = Len(accepted) + 1
        /\ Len(Append(rest, e)) = Len(rest) + 1
    BY <1>1, AppendProperties
  <2>4. fault = "none" => Len(accepted) - Len(Kept(i)) = Dropped
    BY DEF ConservedInv
  <2>5. ASSUME fault = "none"
        PROVE  Len(Append(accepted, e)) - Len(Append(rest, e)) = Dropped + 1
    <3>1. /\ Len(accepted) - Len(Kept(i)) = Dropped
          /\ Len(Append(accepted, e)) = Len(accepted) + 1
          /\ Len(Append(rest, e)) = Len(Kept(i)) - 1 + 1
          /\ Len(Kept(i)) \in Nat /\ Len(accepted) \in Nat /\ Dropped \in Nat
      BY <1>1, <1>2, <2>3, <2>4, <2>5
    <3> QED
      BY <3>1
  <2> QED
    BY <2>2, <2>5
<1> QED
  BY <1>3, <1>4, <1>5, <1>6, <1>7 DEF Flows

--------------------------------------------------------------------------------
(* The steps of the producers                                              *)

(* What push() may do to the queue with the element e of thread p          *)
Grows(p, e) ==
  \/ queue' = queue /\ Dropped' = Dropped /\ pc'[p] # "notifyEmpty"
  \/ /\ pc'[p] = "notifyEmpty" /\ result'[p] \in {"Enqueued", "DroppedOldest"}
     /\ \/ queue' = Append(queue, e) /\ Dropped' = Dropped
        \/ queue # <<>> /\ queue' = Append(Tail(queue), e) /\ Dropped' = Dropped + 1

(* Every path through it does that: no element leaves the queue but the    *)
(* oldest one, no element enters it but its own, at the end.               *)
LEMMA PushGrows ==
  ASSUME Q!TypeOK, NEW p \in Producers, NEW v \in LogRecord, NEW g \in Nat,
         Q!PushLocked(p, v, g) \/ Q!AwaitRoom(p, v, g)
  PROVE  Grows(p, [value |-> v, generation |-> g])
<1> DEFINE e == [value |-> v, generation |-> g]
<1> USE DEF Q!TypeOK
<1>1. p \in Q!Threads
  BY DEF Q!Threads
<1>2. ASSUME NEW s, NEW r, Q!Finish(p, s, r) PROVE pc'[p] = s /\ result'[p] = r
  BY <1>1, <1>2 DEF Q!Finish
<1>3. CASE Q!Refuse(p)
  BY <1>2, <1>3 DEF Q!Refuse, Q!members, Grows, Dropped
<1>4. CASE Q!Finish(p, "notFullWait", "none") /\ UNCHANGED Q!members
  BY <1>2, <1>4 DEF Q!members, Grows, Dropped
<1>5. CASE overflowPolicy = "DropNewest" /\ Q!DropNewest(p)
  BY <1>2, <1>5 DEF Q!DropNewest, Grows, Dropped
<1>6. CASE Q!Enqueue(p, v, g)
  BY <1>2, <1>6 DEF Q!Enqueue, Q!EmplaceLocked, Grows, Dropped
<1>7. CASE /\ overflowPolicy = "DropOldest" /\ Len(queue) >= capacity
           /\ Q!DropOldest(p, v, g)
  <2>1. queue # <<>>
    BY <1>7
  <2> QED
    BY <1>2, <1>7, <2>1 DEF Q!DropOldest, Q!EmplaceLocked, Grows, Dropped
<1> QED
  BY <1>3, <1>4, <1>5, <1>6, <1>7 DEF Q!PushLocked, Q!AwaitRoom

(* An element at the end of the queue is one at the end of what a sink can *)
(* get.                                                                    *)
LEMMA ConcatAppend ==
  ASSUME NEW S, NEW k \in Seq(S), NEW q \in Seq(S), NEW e \in S
  PROVE  k \o Append(q, e) = Append(k \o q, e)
<1>1. <<e>> \in Seq(S) /\ k \o q \in Seq(S)
  BY ConcatProperties
<1>2. Append(q, e) = q \o <<e>> /\ Append(k \o q, e) = (k \o q) \o <<e>>
  BY <1>1, AppendIsConcat
<1>3. (k \o q) \o <<e>> = k \o (q \o <<e>>)
  BY <1>1, ConcatAssociative
<1> QED
  BY <1>2, <1>3

(* Dropping the oldest element of the queue leaves the others in order.    *)
LEMMA ConcatTail ==
  ASSUME NEW S, NEW k \in Seq(S), NEW q \in Seq(S), q # <<>>
  PROVE  /\ Tail(q) \in Seq(S) /\ k \o Tail(q) \in Seq(S)
         /\ InOrder(k \o Tail(q), k \o q)
         /\ Len(k \o Tail(q)) = Len(k \o q) - 1
<1>1. Tail(q) \in Seq(S) /\ Len(Tail(q)) = Len(q) - 1
  BY HeadTailProperties
<1>2. InOrder(Tail(q), q)
  <2>1. /\ Tail(q) = SubSeq(q, 2, Len(q)) /\ Len(q) \in 0..Len(q)
        /\ 2 \in Nat \ {0}
    BY TailIsSubSeq
  <2> QED
    BY <2>1, InOrderPart
<1>3. InOrder(k \o Tail(q), k \o q)
  BY <1>1, <1>2, InOrderItself, InOrderConcat
<1>4. /\ k \o Tail(q) \in Seq(S)
      /\ Len(k \o Tail(q)) = Len(k) + Len(Tail(q)) /\ Len(k \o q) = Len(k) + Len(q)
  BY <1>1, ConcatProperties
<1> QED
  BY <1>1, <1>3, <1>4

(* The last element of the queue is the one just put there.                *)
LEMMA LastOfGrown ==
  ASSUME NEW S, NEW q \in Seq(S), NEW e \in S
  PROVE  /\ Append(q, e)[Len(Append(q, e))] = e
         /\ q # <<>> => Append(Tail(q), e)[Len(Append(Tail(q), e))] = e
<1>1. ASSUME NEW t \in Seq(S) PROVE Append(t, e)[Len(Append(t, e))] = e
  BY AppendProperties
<1>2. q # <<>> => Tail(q) \in Seq(S)
  BY HeadTailProperties
<1> QED
  BY <1>1, <1>2

(* A push() that grows the queue accepts the element it puts there.        *)
LEMMA GrowsFlows ==
  ASSUME TypeInv, NEW p \in Producers, NEW e \in Q!Entry, Grows(p, e), Accept(p),
         UNCHANGED <<written, InFlight, fault>>
  PROVE  /\ Flows
         /\ pc'[p] # "notifyEmpty" => accepted' = accepted
         /\ pc'[p] = "notifyEmpty" => accepted' = Append(accepted, e)
<1>1. /\ InFlight \in Seq(Q!Entry) /\ queue \in Seq(Q!Entry)
      /\ \A i \in DOMAIN written : written[i] \in Seq(Q!Entry)
  BY KeptType
<1>2. \A i \in DOMAIN written : written[i] \o InFlight \in Seq(Q!Entry)
  BY <1>1, ConcatProperties
<1>3. CASE queue' = queue /\ Dropped' = Dropped /\ pc'[p] # "notifyEmpty"
  BY <1>3 DEF Accept, Flows, HandsOn, Kept
<1>4. ASSUME pc'[p] = "notifyEmpty", result'[p] \in {"Enqueued", "DroppedOldest"},
             queue' = Append(queue, e), Dropped' = Dropped
      PROVE  Flows /\ accepted' = Append(accepted, e)
  <2>1. accepted' = Append(accepted, e)
    BY <1>1, <1>4, LastOfGrown DEF Accept
  <2>2. ASSUME NEW i \in DOMAIN written PROVE Kept(i)' = Append(Kept(i), e)
    <3> DEFINE k == written[i] \o InFlight
    <3>1. Kept(i) = k \o queue /\ Kept(i)' = k \o Append(queue, e)
      BY <1>4 DEF Kept
    <3>2. k \in Seq(Q!Entry)
      BY <1>2
    <3> HIDE DEF k
    <3> QED
      BY <1>1, <3>1, <3>2, ConcatAppend
  <2>3. Admits(e)
    BY <1>4, <2>1, <2>2 DEF Admits
  <2> QED
    BY <2>1, <2>3 DEF Flows
<1>5. ASSUME pc'[p] = "notifyEmpty", result'[p] \in {"Enqueued", "DroppedOldest"},
             queue # <<>>, queue' = Append(Tail(queue), e), Dropped' = Dropped + 1
      PROVE  Flows /\ accepted' = Append(accepted, e)
  <2>1. accepted' = Append(accepted, e)
    BY <1>1, <1>5, LastOfGrown DEF Accept
  <2>2. ASSUME NEW i \in DOMAIN written
        PROVE  \E rest \in Seq(Q!Entry) :
                 /\ InOrder(rest, Kept(i)) /\ Len(rest) = Len(Kept(i)) - 1
                 /\ Kept(i)' = Append(rest, e)
    <3> DEFINE k == written[i] \o InFlight
    <3>1. Kept(i) = k \o queue /\ Kept(i)' = k \o Append(Tail(queue), e)
      BY <1>5 DEF Kept
    <3>2. k \in Seq(Q!Entry)
      BY <1>2
    <3> HIDE DEF k
    <3>3. /\ k \o Tail(queue) \in Seq(Q!Entry) /\ InOrder(k \o Tail(queue), k \o queue)
          /\ Len(k \o Tail(queue)) = Len(k \o queue) - 1
      BY <1>1, <1>5, <3>2, ConcatTail
    <3>4. k \o Append(Tail(queue), e) = Append(k \o Tail(queue), e)
      BY <1>1, <1>5, <3>2, ConcatTail, ConcatAppend
    <3> QED
      BY <3>1, <3>3, <3>4
  <2>3. Replaces(e)
    BY <1>5, <2>1, <2>2 DEF Replaces
  <2> QED
    BY <2>1, <2>3 DEF Flows
<1> QED
  BY <1>3, <1>4, <1>5 DEF Grows, Accept

(* The steps of a producer put its record at the end, or nothing anywhere. *)
LEMMA ProducerFlows ==
  ASSUME TypeInv, NEW p \in Producers,
         \/ ProducerStep(p)
         \/ \E level \in Levels : ShouldLog(p, level) \/ Log(p, level)
  PROVE  Flows
<1>1. /\ Q!TypeOK /\ record \in [Producers -> LogRecord]
      /\ p \in Q!Threads /\ Worker \in Q!Threads \ {p}
  BY LoggerAssumption DEF TypeInv, TypeOK, Q!Threads
<1>2. UNCHANGED <<worker, written, fault, batch>>
  BY <1>1, ProducerFrame DEF sinkVars, workerVars
<1>3. result'[Worker] = result[Worker]
  BY <1>1, StepWakes DEF OthersOnlyWake
<1>4. InFlight' = InFlight
  BY <1>2, <1>3 DEF InFlight
<1>5. ASSUME UNCHANGED <<queue, overflowPolicy, droppedCount, accepted>> PROVE Flows
  BY <1>2, <1>4, <1>5 DEF Flows, HandsOn, Kept, Dropped
<1>6. ASSUME NEW number, NEW level, Capture(p, number, level) PROVE Flows
  BY <1>5, <1>6 DEF Capture, Q!GetGeneration, Q!members, queueVars
<1>7. CASE LogStatic(p) \/ \E level \in Levels : Log(p, level)
  BY <1>6, <1>7 DEF LogStatic, Log
<1>8. CASE \E level \in Levels : ShouldLog(p, level)
  BY <1>5, <1>8 DEF ShouldLog, queueVars
<1>9. ASSUME NEW v \in LogRecord, NEW g \in Nat, Accept(p),
             Q!PushLocked(p, v, g) \/ Q!AwaitRoom(p, v, g)
      PROVE  Flows
  <2>1. [value |-> v, generation |-> g] \in Q!Entry
    BY DEF Q!Entry
  <2>2. Grows(p, [value |-> v, generation |-> g])
    BY <1>1, <1>9, PushGrows
  <2> QED
    BY <1>2, <1>4, <1>9, <2>1, <2>2, GrowsFlows
<1>10. CASE PushRecord(p)
  BY <1>1, <1>9, <1>10 DEF PushRecord, Q!Push, Q!TypeOK
<1>11. CASE ProducerQueueStep(p) /\ Q!PushWake(p)
  BY <1>1, <1>9, <1>11 DEF ProducerQueueStep, Q!PushWake, Q!TypeOK
<1>12. CASE ProducerQueueStep(p) /\ Q!PushNotify(p)
  BY <1>5, <1>12 DEF ProducerQueueStep, Q!PushNotify, Q!members
<1> QED
  BY <1>7, <1>8, <1>10, <1>11, <1>12
  DEF ProducerStep, ProducerQueueStep, Q!ProducerStep

--------------------------------------------------------------------------------
(* The steps of the worker                                                 *)

(* While the worker waits for elements it holds none.                      *)
AsleepInv == pc[Worker] \in Q!NotEmptyStates => result[Worker] = "none"

(* What the worker takes is the front of the queue, the rest stays.        *)
LEMMA TakesFront ==
  ASSUME Q!TypeOK, NEW m, NEW n \in Nat \ {0}, Q!TakeLocked(Worker, m, n)
  PROVE  /\ UNCHANGED <<overflowPolicy, droppedCount>>
         /\ queue' \in Seq(Q!Entry) /\ batch'[Worker] \in Seq(Q!Entry)
         /\ batch'[Worker] \o queue' = queue
         /\ result'[Worker] = "noValues" => queue' = queue
         /\ result'[Worker] \in {"values", "noValues"}
         /\ pc'[Worker] \notin Q!NotEmptyStates
<1>1. Takes(Worker)
  BY TakeDoes
<1>2. /\ UNCHANGED <<overflowPolicy, droppedCount>>
      /\ queue' \in Seq(Q!Entry) /\ batch'[Worker] \in Seq(Q!Entry)
      /\ result'[Worker] = "noValues" => queue' = queue
      /\ result'[Worker] \in {"values", "noValues"}
      /\ pc'[Worker] \notin Q!NotEmptyStates
  BY <1>1 DEF Takes, Q!NotEmptyStates
<1>3. queue \in Seq(Q!Entry) /\ batch \in [{Worker} -> Seq(Q!Entry)]
  BY DEF Q!TypeOK
<1>4. CASE queue = <<>>
  <2>1. batch'[Worker] = <<>> /\ queue' = <<>>
    BY <1>3, <1>4 DEF Q!TakeLocked, Q!members
  <2> QED
    BY <1>2, <1>4, <2>1
<1>5. CASE queue # <<>>
  <2> DEFINE k == IF Len(queue) < n THEN Len(queue) ELSE n
  <2>1. /\ batch'[Worker] = SubSeq(queue, 1, k)
        /\ queue' = SubSeq(queue, k + 1, Len(queue))
    BY <1>3, <1>5 DEF Q!TakeLocked
  <2>2. k \in 0..Len(queue) /\ Len(queue) \in Nat
    BY <1>3
  <2> HIDE DEF k
  <2>3. SubSeq(queue, 1, k) \o SubSeq(queue, k + 1, Len(queue)) = SubSeq(queue, 1, Len(queue))
    <3>1. /\ 1 \in 1..Len(queue) + 1 /\ k \in 1 - 1..Len(queue)
          /\ Len(queue) \in k..Len(queue)
      BY <2>2
    <3> QED
      BY <1>3, <3>1, ConcatAdjacentSubSeq
  <2>4. SubSeq(queue, 1, Len(queue)) = queue
    BY <1>3, SubSeqFull
  <2> QED
    BY <1>2, <2>1, <2>3, <2>4
<1> QED
  BY <1>4, <1>5

(* The front of the queue in the hands of the worker is still before the   *)
(* rest of it.                                                             *)
LEMMA TakesFlows ==
  ASSUME TypeInv, InFlight = <<>>, worker' = "popping",
         NEW m, NEW n \in Nat \ {0}, Q!TakeLocked(Worker, m, n),
         UNCHANGED <<written, accepted, fault>>
  PROVE  Flows
<1>1. Q!TypeOK
  BY DEF TypeInv, TypeOK
<1>2. /\ UNCHANGED <<overflowPolicy, droppedCount>>
      /\ queue \in Seq(Q!Entry) /\ queue' \in Seq(Q!Entry)
      /\ InFlight' \in Seq(Q!Entry) /\ InFlight' \o queue' = queue
  <2>1. /\ batch'[Worker] \in Seq(Q!Entry) /\ batch'[Worker] \o queue' = queue
        /\ result'[Worker] = "noValues" => queue' = queue
        /\ result'[Worker] \in {"values", "noValues"}
        /\ queue' \in Seq(Q!Entry) /\ UNCHANGED <<overflowPolicy, droppedCount>>
    BY <1>1, TakesFront
  <2>2. CASE result'[Worker] = "values"
    BY <2>1, <2>2, KeptType DEF InFlight
  <2>3. CASE result'[Worker] = "noValues"
    <3>1. InFlight' = <<>> /\ queue' = queue
      BY <2>1, <2>3 DEF InFlight
    <3>2. <<>> \o queue = queue
      BY KeptType
    <3> QED
      BY <2>1, <3>1, <3>2, KeptType
  <2> QED
    BY <2>1, <2>2, <2>3
<1>3. ASSUME NEW i \in DOMAIN written PROVE Kept(i)' = Kept(i)
  <2>1. written[i] \in Seq(Q!Entry)
    BY KeptType
  <2>2. Kept(i)' = (written[i] \o InFlight') \o queue'
    BY DEF Kept
  <2>3. (written[i] \o InFlight') \o queue' = written[i] \o (InFlight' \o queue')
    <3>1. \A f, q \in Seq(Q!Entry) : (written[i] \o f) \o q = written[i] \o (f \o q)
      BY <2>1, ConcatAssociative
    <3> QED
      BY <1>2, <3>1
  <2>4. written[i] \o <<>> = written[i]
    BY <2>1
  <2>5. Kept(i) = written[i] \o queue
    BY <2>4 DEF Kept
  <2> QED
    BY <1>2, <2>2, <2>3, <2>5
<1> QED
  BY <1>2, <1>3 DEF Flows, HandsOn, Dropped

(* What a sink gets of the batch before one of them throws is in order     *)
(* with it.                                                                *)
LEMMA PartInOrder ==
  ASSUME NEW S, NEW b \in Seq(S), NEW bad, NEW n \in 0..Len(b), NEW i
  PROVE  LET part == IF i < bad THEN b ELSE IF i = bad THEN SubSeq(b, 1, n) ELSE <<>>
         IN  part \in Seq(S) /\ InOrder(part, b)
<1>1. SubSeq(b, 1, n) \in Seq(S)
  BY SubSeqProperties
<1>2. InOrder(b, b) /\ InOrder(<<>>, b) /\ InOrder(SubSeq(b, 1, n), b)
  BY InOrderItself, InOrderEmpty, InOrderPart
<1> QED
  BY <1>1, <1>2

(* The batch goes from the hands of the worker to the sinks, or to some of *)
(* them a part of it.                                                      *)
LEMMA WriteFlows ==
  ASSUME TypeInv, WriteBatch, UNCHANGED accepted
  PROVE  Flows
<1> DEFINE b == batch[Worker]
<1>1. /\ b \in Seq(Q!Entry) /\ queue \in Seq(Q!Entry)
      /\ \A i \in DOMAIN written : written[i] \in Seq(Q!Entry)
  BY KeptType DEF TypeInv, TypeOK, Q!TypeOK
<1>2. /\ InFlight = b /\ InFlight' = <<>>
      /\ UNCHANGED <<queue, overflowPolicy, droppedCount>>
  BY DEF WriteBatch, InFlight, OnlyWorker, queueVars
<1>3. ASSUME NEW i \in DOMAIN written, NEW part \in Seq(Q!Entry),
             written'[i] = written[i] \o part
      PROVE  Kept(i)' = (written[i] \o part) \o queue
  <2>1. Kept(i)' = ((written[i] \o part) \o <<>>) \o queue
    BY <1>2, <1>3 DEF Kept
  <2>2. written[i] \o part \in Seq(Q!Entry)
    BY <1>1, ConcatProperties
  <2>3. (written[i] \o part) \o <<>> = written[i] \o part
    BY <2>2, ConcatEmptySeq
  <2> QED
    BY <2>1, <2>3
<1> HIDE DEF b
<1>4. CASE written' = [i \in DOMAIN written |-> written[i] \o b] /\ fault' = fault
  <2>1. \A i \in DOMAIN written : Kept(i)' = Kept(i)
    BY <1>1, <1>2, <1>3, <1>4 DEF Kept
  <2> QED
    BY <1>2, <1>4, <2>1 DEF Flows, HandsOn, Dropped
<1>5. ASSUME NEW bad \in DOMAIN written, NEW n \in 0..Len(b),
             written' = WrittenUntil(bad, n), fault' = "write"
      PROVE  Flows
  <2>1. ASSUME NEW i \in DOMAIN written PROVE InOrder(Kept(i)', Kept(i))
    <3> DEFINE part == IF i < bad THEN b ELSE IF i = bad THEN SubSeq(b, 1, n) ELSE <<>>
    <3>1. part \in Seq(Q!Entry) /\ InOrder(part, b)
      BY <1>1, PartInOrder
    <3>2. written'[i] = written[i] \o part
      BY <1>5 DEF WrittenUntil, b
    <3> HIDE DEF part
    <3>3. Kept(i)' = (written[i] \o part) \o queue
      BY <1>3, <3>1, <3>2
    <3>4. InOrder(written[i] \o part, written[i] \o b)
      BY <1>1, <3>1, InOrderItself, InOrderConcat
    <3>5. written[i] \o part \in Seq(Q!Entry) /\ written[i] \o b \in Seq(Q!Entry)
      BY <1>1, <3>1, ConcatProperties
    <3>6. InOrder((written[i] \o part) \o queue, (written[i] \o b) \o queue)
      BY <1>1, <3>4, <3>5, InOrderItself, InOrderConcat
    <3> QED
      BY <1>2, <3>3, <3>6 DEF Kept
  <2>2. DOMAIN written' = DOMAIN written
    BY <1>5 DEF WrittenUntil
  <2> QED
    BY <1>5, <2>1, <2>2 DEF Flows, Loses
<1> QED
  BY <1>4, <1>5 DEF WriteBatch, b

(* The other steps of the worker leave the records where they are.         *)
LEMMA WorkerFlows ==
  ASSUME TypeInv, PlaceInv, AsleepInv, WorkerStep \/ WorkerTimeout \/ Tick
  PROVE  Flows /\ AsleepInv'
<1>1. Q!TypeOK
  BY DEF TypeInv, TypeOK
<1>2. UNCHANGED accepted
  BY <1>1, WorkerFrame DEF producerVars
<1>3. ASSUME UNCHANGED <<queue, overflowPolicy, droppedCount, written>>,
             InFlight' = InFlight, fault' = "none" => fault = "none"
      PROVE  Flows
  BY <1>2, <1>3 DEF Flows, HandsOn, Kept, Dropped
<1>4. ASSUME UNCHANGED queueVars PROVE AsleepInv'
  BY <1>4 DEF AsleepInv, queueVars
<1>5. CASE WriteBatch
  BY <1>2, <1>4, <1>5, WriteFlows DEF WriteBatch, OnlyWorker
<1>6. ASSUME NEW m, NEW n \in Nat \ {0}, worker' = "popping", InFlight = <<>>,
             UNCHANGED <<written, fault>>,
             Q!TakeLocked(Worker, m, n) \/ Q!ParkOnNotEmpty(Worker)
      PROVE  Flows /\ AsleepInv'
  <2>1. CASE Q!TakeLocked(Worker, m, n)
    BY <1>1, <1>2, <1>6, <2>1, TakesFlows, TakesFront DEF AsleepInv
  <2>2. CASE Q!ParkOnNotEmpty(Worker)
    <3>1. result'[Worker] = "none" /\ UNCHANGED <<queue, overflowPolicy, droppedCount>>
      BY <1>1, <2>2 DEF Q!ParkOnNotEmpty, Q!Finish, Q!members, Q!TypeOK, Q!Threads
    <3>2. InFlight' = <<>>
      BY <3>1 DEF InFlight
    <3> QED
      BY <1>3, <1>6, <3>1, <3>2 DEF AsleepInv
  <2> QED
    BY <1>6, <2>1, <2>2
<1>7. CASE WorkerPop
  <2>1. /\ Q!Pop(Worker, IF Periodic THEN "popBatchFor" ELSE "popBatch",
                 config.writeBatchSize)
        /\ InFlight = <<>> /\ worker' = "popping" /\ UNCHANGED <<written, fault>>
    BY <1>7 DEF WorkerPop, InFlight, sinkVars
  <2>2. config.writeBatchSize \in Nat \ {0}
    BY <2>1, ConfigType DEF Q!Pop, TypeInv, TypeOK
  <2> QED
    BY <1>6, <2>1, <2>2 DEF Q!Pop
<1>8. CASE WorkerQueueStep
  <2>1. UNCHANGED <<written, fault, worker>> /\ Q!ConsumerStep(Worker)
    BY <1>8 DEF WorkerQueueStep, OnlyQueue, sinkVars, workerVars
  <2>2. maxCount[Worker] \in Nat \ {0}
    BY <1>1 DEF Q!TypeOK
  <2>3. ASSUME pc[Worker] \in Q!NotEmptyStates
        PROVE  InFlight = <<>> /\ worker' = "popping"
    BY <2>1, <2>3 DEF AsleepInv, InFlight, PlaceInv, WorkerPlaces
  <2>4. CASE Q!PopWake(Worker)
    BY <1>6, <2>1, <2>2, <2>3, <2>4 DEF Q!PopWake, Q!NotEmptyStates
  <2>5. CASE Q!PopTimedOut(Worker)
    <3>1. CASE Q!TakeLocked(Worker, method[Worker], maxCount[Worker])
      BY <1>6, <2>1, <2>2, <2>3, <2>5, <3>1 DEF Q!PopTimedOut, Q!NotEmptyStates
    <3>2. CASE Q!Finish(Worker, "idle", "noValues") /\ UNCHANGED <<Q!members, batch>>
      <4>1. pc'[Worker] = "idle" /\ result'[Worker] = "noValues"
        BY <1>1, <3>2 DEF Q!Finish, Q!TypeOK, Q!Threads
      <4>2. InFlight = <<>> /\ InFlight' = <<>>
        BY <2>3, <2>5, <4>1 DEF Q!PopTimedOut, Q!NotEmptyStates, InFlight
      <4> QED
        BY <1>3, <2>1, <3>2, <4>1, <4>2 DEF Q!members, AsleepInv, Q!NotEmptyStates
    <3> QED
      BY <2>5, <3>1, <3>2 DEF Q!PopTimedOut
  <2>6. CASE Q!PopNotify(Worker)
    <3>1. /\ UNCHANGED <<queue, overflowPolicy, droppedCount, result, batch>>
          /\ pc'[Worker] \notin Q!NotEmptyStates
      BY <1>1, <2>6
      DEF Q!PopNotify, Q!NotifyOne, Q!NotifyAll, Q!OnNotFull, Q!members, Q!TypeOK,
          Q!Threads, Q!NotEmptyStates
    <3>2. InFlight' = InFlight
      BY <2>1, <3>1 DEF InFlight
    <3> QED
      BY <1>3, <2>1, <3>1, <3>2 DEF AsleepInv
  <2> QED
    BY <2>1, <2>4, <2>5, <2>6 DEF Q!ConsumerStep
<1>9. CASE WorkerTimeout
  <2>1. /\ UNCHANGED <<queue, overflowPolicy, droppedCount, result, batch, worker,
                       written, fault>>
        /\ pc[Worker] \in Q!NotEmptyStates
    BY <1>9
    DEF WorkerTimeout, OnlyQueue, sinkVars, workerVars, Q!PopTimeout, Q!members,
        Q!NotEmptyStates
  <2>2. InFlight' = InFlight
    BY <2>1 DEF InFlight
  <2> QED
    BY <1>3, <2>1, <2>2 DEF AsleepInv
<1>10. CASE WorkerCloses
  <2>1. /\ UNCHANGED <<queue, overflowPolicy, droppedCount, written, fault>>
        /\ worker \in {"closing", "closingLast"} /\ worker' # "popping"
        /\ pc'[Worker] = "closeEmpty"
    BY <1>1, <1>10
    DEF WorkerCloses, AfterClose, sinkVars, Q!Close, Q!TypeOK, Q!Threads
  <2>2. InFlight = <<>> /\ InFlight' = <<>>
    BY <2>1 DEF InFlight
  <2> QED
    BY <1>3, <2>1, <2>2 DEF AsleepInv, Q!NotEmptyStates
<1>11. CASE Tick
  <2>1. UNCHANGED <<queueVars, written, fault, worker>>
    BY <1>11 DEF Tick, sinkVars
  <2>2. InFlight' = InFlight
    BY <2>1 DEF InFlight, queueVars
  <2> QED
    BY <1>3, <1>4, <2>1, <2>2 DEF queueVars
<1>12. CASE \/ WorkerStart \/ FlushAfterBatch \/ NoBatch \/ CheckClosed
            \/ WorkerFails \/ FinalFlush
  <2>1. /\ UNCHANGED <<queueVars, written>>
        /\ fault' = "none" => fault = "none"
    BY <1>12
    DEF WorkerStart, FlushAfterBatch, NoBatch, CheckClosed, WorkerFails, FinalFlush,
        GoOn, OnlyWorker, FlushSinks
  <2>2. worker = "popping" => result[Worker] = "noValues"
    BY <1>12
    DEF WorkerStart, FlushAfterBatch, NoBatch, CheckClosed, WorkerFails, FinalFlush
  <2>3. worker' # "popping"
    BY <1>12
    DEF WorkerStart, FlushAfterBatch, NoBatch, CheckClosed, WorkerFails, FinalFlush,
        GoOn, FlushSinks, NextRound, AfterNoBatch, AfterFault
  <2>4. InFlight = <<>> /\ InFlight' = <<>>
    BY <2>2, <2>3 DEF InFlight
  <2> QED
    BY <1>3, <1>4, <2>1, <2>4 DEF queueVars
<1> QED
  BY <1>5, <1>7, <1>8, <1>9, <1>10, <1>11, <1>12 DEF WorkerStep

--------------------------------------------------------------------------------
(* Every step                                                              *)

(* Another thread only wakes the worker, which still holds nothing.        *)
LEMMA OthersLetSleep ==
  ASSUME AsleepInv, NEW t \in Q!Threads, t # Worker, OthersOnlyWake(t)
  PROVE  AsleepInv'
<1>1. Worker \in Q!Threads \ {t}
  BY DEF Q!Threads
<1> QED
  BY <1>1 DEF OthersOnlyWake, AsleepInv, Q!NotEmptyStates

(* init() and stop() leave the records alone until queue_.reset().         *)
LEMMA ControlFlows ==
  ASSUME TypeInv, PlaceInv, NEW k \in Controllers,
         \/ Stop(k) \/ ControlStep(k)
         \/ \E cf \in Configs : InitCall(k, cf)
  PROVE  Flows
<1>1. ASSUME UNCHANGED <<queue, overflowPolicy, droppedCount, written, fault, accepted>>,
             InFlight' = InFlight
      PROVE  Flows
  BY <1>1 DEF Flows, HandsOn, Kept, Dropped
<1>2. CASE \/ Stop(k) \/ InitConfigure(k) \/ InitAborted(k)
           \/ \E cf \in Configs : InitCall(k, cf)
  <2>1. UNCHANGED <<queueVars, written, fault, accepted, worker>>
    BY <1>2
    DEF Stop, InitConfigure, InitAborted, InitCall, producerVars, sinkVars, workerVars
  <2>2. InFlight' = InFlight
    BY <2>1 DEF InFlight, queueVars
  <2> QED
    BY <1>1, <2>1, <2>2 DEF queueVars
<1>3. CASE InitAbort(k) \/ StopClose(k)
  <2>1. UNCHANGED <<queue, overflowPolicy, droppedCount, written, fault, accepted,
                    worker, result, batch>>
    BY <1>3 DEF InitAbort, StopClose, Q!Close, producerVars, sinkVars, workerVars
  <2>2. InFlight' = InFlight
    BY <2>1 DEF InFlight
  <2> QED
    BY <1>1, <2>1, <2>2
<1>4. CASE InitJoin(k) \/ StopJoin(k)
  <2>1. UNCHANGED <<queueVars, written, fault, accepted>>
    BY <1>4 DEF InitJoin, StopJoin, producerVars
  <2>2. worker' = "none" /\ worker \in {"none", "exited"}
    BY <1>4 DEF InitJoin, StopJoin, JoinWorker, Joinable, Exited
  <2>3. InFlight' = InFlight
    BY <2>2 DEF InFlight
  <2> QED
    BY <1>1, <2>1, <2>3 DEF queueVars
<1>5. CASE InitSpawn(k)
  <2>1. UNCHANGED <<queueVars, written, fault, accepted>>
    BY <1>5 DEF InitSpawn, producerVars, sinkVars
  <2>2. worker' \in {"none", "starting"} /\ worker = "none"
    BY <1>5 DEF InitSpawn, workerVars, PlaceInv, ControlPlaces
  <2>3. InFlight' = InFlight
    BY <2>2 DEF InFlight
  <2> QED
    BY <1>1, <2>1, <2>3 DEF queueVars
<1>6. CASE InitReset(k)
  <2>1. /\ queue' = <<>> /\ droppedCount' = 0 /\ accepted' = <<>> /\ worker' = worker
        /\ written' = [i \in 1..request[k].sinks |-> <<>>]
    BY <1>6 DEF InitReset, Q!Reset, workerVars
  <2>2. worker = "none"
    BY <1>6 DEF InitReset, PlaceInv, ControlPlaces
  <2>3. InFlight' = <<>>
    BY <2>1, <2>2 DEF InFlight
  <2>4. \A i \in DOMAIN written' : Kept(i)' = <<>>
    BY <2>1, <2>3 DEF Kept
  <2> QED
    BY <2>1, <2>4 DEF Flows, StartsAfresh, Dropped
<1> QED
  BY <1>2, <1>3, <1>4, <1>5, <1>6 DEF ControlStep

(* Every step of the program hands on, accepts, replaces, loses or begins  *)
(* afresh.                                                                 *)
LEMMA NextFlows ==
  TypeInv /\ PlaceInv /\ AsleepInv /\ [Next]_vars => Flows /\ AsleepInv'
<1> SUFFICES ASSUME TypeInv, PlaceInv, AsleepInv, [Next]_vars
             PROVE  Flows /\ AsleepInv'
  OBVIOUS
<1>1. ASSUME NEW p \in Producers,
             \/ ProducerStep(p)
             \/ \E level \in Levels : ShouldLog(p, level) \/ Log(p, level)
      PROVE  Flows /\ AsleepInv'
  <2>1. p \in Q!Threads /\ p # Worker
    BY LoggerAssumption DEF Q!Threads
  <2> QED
    BY <1>1, <2>1, ProducerFlows, StepWakes, OthersLetSleep
<1>2. ASSUME NEW k \in Controllers,
             \/ Stop(k) \/ ControlStep(k)
             \/ \E cf \in Configs : InitCall(k, cf)
      PROVE  Flows /\ AsleepInv'
  <2>1. k \in Q!Threads /\ k # Worker
    BY LoggerAssumption DEF Q!Threads
  <2> QED
    BY <1>2, <2>1, ControlFlows, StepWakes, OthersLetSleep
<1>3. ASSUME UNCHANGED <<queue, overflowPolicy, droppedCount, written, fault, accepted,
                         worker, result, batch>>
      PROVE  Flows
  <2>1. InFlight' = InFlight
    BY <1>3 DEF InFlight
  <2> QED
    BY <1>3, <2>1 DEF Flows, HandsOn, Kept, Dropped
<1>4. ASSUME NEW t \in Q!Threads, CloseNotify(t) \/ SpuriousWake(t)
      PROVE  Flows /\ AsleepInv'
  <2>1. UNCHANGED <<queue, overflowPolicy, droppedCount, written, fault, accepted,
                    worker, result, batch>>
    BY <1>4
    DEF CloseNotify, SpuriousWake, Q!CloseNotify, Q!SpuriousWake, Q!members,
        OnlyQueue, sinkVars, workerVars, producerVars
  <2>2. pc'[Worker] \in Q!NotEmptyStates => pc[Worker] \in Q!NotEmptyStates
    BY <1>4
    DEF CloseNotify, SpuriousWake, Q!CloseNotify, Q!SpuriousWake, Q!NotifyAll,
        Q!OnNotFull, Q!OnNotEmpty, Q!NotEmptyStates, TypeInv, TypeOK, Q!TypeOK,
        Q!Threads
  <2> QED
    BY <1>3, <2>1, <2>2 DEF AsleepInv
<1>5. ASSUME NEW level \in Levels, SetLevel(level) PROVE Flows /\ AsleepInv'
  BY <1>3, <1>5
  DEF SetLevel, queueVars, sinkVars, workerVars, producerVars, AsleepInv
<1>6. CASE UNCHANGED vars
  BY <1>3, <1>6 DEF vars, queueVars, sinkVars, workerVars, producerVars, AsleepInv
<1> QED
  BY <1>1, <1>2, <1>4, <1>5, <1>6, WorkerFlows DEF Next

--------------------------------------------------------------------------------
(* No record twice                                                         *)

(* A producer has a record on its way to the queue.                        *)
Busy(p) == logging[p] # "idle" \/ pc[p] \in Q!NotFullStates

(* The accepted records of p are of its calls so far, and while it is busy *)
(* of its earlier calls.                                                   *)
Earlier(p) ==
  \A a \in 1..Len(accepted) :
    LET v == accepted[a].value IN
    v.by = p => v.number <= calls[p] /\ (Busy(p) => v.number < calls[p])

(* The record on its way is that of the call it is in.                     *)
Current(p) ==
  /\ record[p].by = p
  /\ logging[p] # "idle" => record[p].number = calls[p] /\ pc[p] = "idle"
  /\ pc[p] \in Q!NotFullStates => value[p].by = p /\ value[p].number = calls[p]

Distinct == \A a, b \in 1..Len(accepted) : accepted[a] = accepted[b] => a = b

OnceInv == Distinct /\ \A p \in Producers : Earlier(p) /\ Current(p)

(* What is accepted, with the element e of p or without                    *)
Adds(p, e) ==
  \/ accepted' \in {accepted, <<>>}
  \/ accepted' = Append(accepted, e) /\ e.value.by = p

(* An accepted record was accepted before, at the same place, or it is the *)
(* element e at the end.                                                   *)
LEMMA AddsOne ==
  ASSUME accepted \in Seq(Q!Entry), NEW p, NEW e \in Q!Entry, Adds(p, e)
  PROVE  \A a \in 1..Len(accepted') :
           \/ a \in 1..Len(accepted) /\ accepted'[a] = accepted[a]
           \/ a = Len(accepted) + 1 /\ accepted' = Append(accepted, e) /\ accepted'[a] = e
<1>1. CASE accepted' \in {accepted, <<>>}
  BY <1>1
<1>2. CASE accepted' = Append(accepted, e)
  <2>1. /\ Len(accepted') = Len(accepted) + 1
        /\ \A i \in 1..Len(accepted) : accepted'[i] = accepted[i]
        /\ accepted'[Len(accepted) + 1] = e
    BY <1>2, AppendProperties
  <2>2. Len(accepted) \in Nat
    OBVIOUS
  <2>3. \A a \in 1..Len(accepted') : a \in 1..Len(accepted) \/ a = Len(accepted) + 1
    BY <2>1, <2>2
  <2> QED
    BY <1>2, <2>1, <2>3
<1> QED
  BY <1>1, <1>2 DEF Adds

(* A producer that does not move, but to be woken, stays as it is: what    *)
(* others add is not its own.                                              *)
LEMMA OthersOnce ==
  ASSUME TypeInv, NEW t \in Q!Threads, OthersOnlyWake(t), NEW p, NEW e \in Q!Entry,
         Adds(p, e), NEW q \in Producers \ {t}, q # p \/ accepted' \in {accepted, <<>>},
         Earlier(q), Current(q),
         logging'[q] = logging[q], record'[q] = record[q], value'[q] = value[q],
         calls'[q] = calls[q]
  PROVE  Earlier(q)' /\ Current(q)'
<1>1. q \in Q!Threads \ {t} /\ accepted \in Seq(Q!Entry)
  BY DEF Q!Threads, TypeInv, TypeOK
<1>2. /\ pc'[q] \in Q!NotFullStates => pc[q] \in Q!NotFullStates
      /\ pc[q] = "idle" => pc'[q] = "idle"
  BY <1>1 DEF OthersOnlyWake, Q!NotFullStates
<1>3. Current(q)'
  BY <1>2 DEF Current
<1>4. Busy(q)' => Busy(q)
  BY <1>2 DEF Busy
<1>5. \A a \in 1..Len(accepted') :
        \/ a \in 1..Len(accepted) /\ accepted'[a] = accepted[a]
        \/ accepted'[a].value.by # q
  <2>1. CASE accepted' \in {accepted, <<>>}
    BY <2>1
  <2>2. CASE q # p /\ accepted' = Append(accepted, e) /\ e.value.by = p
    BY <1>1, <2>2, AddsOne
  <2> QED
    BY <2>1, <2>2 DEF Adds
<1>6. Earlier(q)'
  BY <1>4, <1>5 DEF Earlier
<1> QED
  BY <1>3, <1>6

(* An element of the current call is not among those of earlier calls.     *)
LEMMA AddsOther ==
  ASSUME accepted \in Seq(Q!Entry), Distinct, NEW p, NEW e \in Q!Entry, Adds(p, e),
         accepted' = Append(accepted, e) =>
           \A a \in 1..Len(accepted) : accepted[a] # e
  PROVE  Distinct'
<1>1. \A a \in 1..Len(accepted') :
        \/ a \in 1..Len(accepted) /\ accepted'[a] = accepted[a]
        \/ a = Len(accepted) + 1 /\ accepted' = Append(accepted, e) /\ accepted'[a] = e
  BY AddsOne
<1> SUFFICES ASSUME NEW a \in 1..Len(accepted'), NEW b \in 1..Len(accepted'),
                    accepted'[a] = accepted'[b]
             PROVE  a = b
  BY DEF Distinct
<1> QED
  BY <1>1 DEF Distinct

(* A record enters the queue once, at the end of its call.                 *)
LEMMA PushedOnce ==
  ASSUME TypeInv, OnceInv, NEW p \in Producers, Busy(p), NEW v \in LogRecord,
         NEW g \in Nat, v.by = p, v.number = calls[p],
         Q!PushLocked(p, v, g) \/ Q!AwaitRoom(p, v, g), Accept(p),
         UNCHANGED <<calls, record, written, InFlight, fault>>,
         logging'[p] = "idle", value'[p] = v
  PROVE  /\ Adds(p, [value |-> v, generation |-> g])
         /\ Distinct' /\ Earlier(p)' /\ Current(p)'
<1> DEFINE e == [value |-> v, generation |-> g]
<1>1. /\ Q!TypeOK /\ e \in Q!Entry /\ e.value = v
      /\ accepted \in Seq(Q!Entry) /\ calls[p] \in Nat
  BY LoggerAssumption DEF TypeInv, TypeOK, Q!Entry
<1> HIDE DEF e
<1>2. Grows(p, e)
  BY <1>1, PushGrows DEF e
<1>3. /\ pc'[p] # "notifyEmpty" => accepted' = accepted
      /\ pc'[p] = "notifyEmpty" => accepted' = Append(accepted, e)
  BY <1>1, <1>2, GrowsFlows
<1>4. Adds(p, e)
  BY <1>1, <1>3 DEF Adds
<1>5. \A a \in 1..Len(accepted) :
        accepted[a].value.by = p => accepted[a].value.number < calls[p]
  BY DEF OnceInv, Earlier
<1>6. ASSUME NEW a \in 1..Len(accepted) PROVE accepted[a] # e
  <2>1. accepted[a].value.by = p => accepted[a].value.number < calls[p]
    BY <1>5
  <2> QED
    BY <1>1, <2>1
<1>7. Distinct'
  BY <1>1, <1>4, <1>6, AddsOther DEF OnceInv
<1>8. Current(p)'
  BY DEF OnceInv, Current
<1>9. Earlier(p)'
  <2>1. CASE accepted' = accepted
    BY <1>1, <1>5, <2>1 DEF Earlier, OnceInv
  <2>2. CASE accepted' = Append(accepted, e) /\ pc'[p] = "notifyEmpty"
    <3>1. ~Busy(p)'
      BY <2>2 DEF Busy, Q!NotFullStates
    <3>2. \A a \in 1..Len(accepted') :
            \/ a \in 1..Len(accepted) /\ accepted'[a] = accepted[a]
            \/ accepted'[a] = e
      BY <1>1, <1>4, AddsOne
    <3>3. ASSUME NEW a \in 1..Len(accepted'), accepted'[a].value.by = p
          PROVE  accepted'[a].value.number <= calls'[p]
      <4>1. CASE a \in 1..Len(accepted) /\ accepted'[a] = accepted[a]
        BY <3>3, <4>1 DEF OnceInv, Earlier
      <4>2. CASE accepted'[a] = e
        BY <1>1, <4>2
      <4> QED
        BY <3>2, <4>1, <4>2
    <3> QED
      BY <3>1, <3>3 DEF Earlier
  <2> QED
    BY <1>3, <2>1, <2>2
<1> QED
  BY <1>4, <1>7, <1>8, <1>9 DEF e

(* The numbers of records are natural numbers, which count the calls.      *)
LEMMA NumbersAreNat ==
  ASSUME accepted \in Seq(Q!Entry), NEW a \in 1..Len(accepted)
  PROVE  accepted[a].value.number \in Nat
<1>1. accepted[a] \in Q!Entry
  OBVIOUS
<1>2. accepted[a].value \in LogRecord
  BY <1>1 DEF Q!Entry
<1>3. accepted[a].value.number \in 1..MaxCalls
  BY <1>2 DEF LogRecord
<1> QED
  BY <1>3

(* A step of a producer accepts the record of its present call, which it   *)
(* has not pushed before.                                                  *)
LEMMA ProducerOnce ==
  ASSUME TypeInv, OnceInv, NEW p \in Producers,
         \/ ProducerStep(p)
         \/ \E level \in Levels : ShouldLog(p, level) \/ Log(p, level)
  PROVE  OnceInv'
<1>1. /\ Q!TypeOK /\ record \in [Producers -> LogRecord]
      /\ logging \in [Producers -> {"idle", "admitted", "captured"}]
      /\ calls \in [Producers -> 0..MaxCalls] /\ accepted \in Seq(Q!Entry)
      /\ value \in [Producers -> LogRecord] /\ expected \in [Producers -> Nat]
      /\ p \in Q!Threads /\ Worker \in Q!Threads \ {p}
      /\ MaxCalls \in Nat
  BY LoggerAssumption DEF TypeInv, TypeOK, Q!Threads, Q!TypeOK
<1>2. UNCHANGED <<worker, written, fault, batch>>
  BY <1>1, ProducerFrame DEF sinkVars, workerVars
<1>3. OthersOnlyWake(p) /\ result'[Worker] = result[Worker]
  BY <1>1, StepWakes DEF OthersOnlyWake
<1>4. InFlight' = InFlight
  BY <1>2, <1>3 DEF InFlight
<1>5. Distinct /\ Earlier(p) /\ Current(p)
  BY DEF OnceInv
<1>6. ASSUME NEW e \in Q!Entry, Adds(p, e), Distinct', Earlier(p)', Current(p)',
             \A q \in Producers \ {p} :
               /\ logging'[q] = logging[q] /\ record'[q] = record[q]
               /\ value'[q] = value[q] /\ calls'[q] = calls[q]
      PROVE  OnceInv'
  <2>1. ASSUME NEW q \in Producers \ {p} PROVE Earlier(q)' /\ Current(q)'
    BY <1>1, <1>3, <1>6, <2>1, OthersOnce DEF OnceInv
  <2> QED
    BY <1>6, <2>1 DEF OnceInv
<1>7. ASSUME accepted' = accepted, Earlier(p)', Current(p)',
             \A q \in Producers \ {p} :
               /\ logging'[q] = logging[q] /\ record'[q] = record[q]
               /\ value'[q] = value[q] /\ calls'[q] = calls[q]
      PROVE  OnceInv'
  <2>1. [value |-> record[p], generation |-> 0] \in Q!Entry
    BY <1>1 DEF Q!Entry
  <2>2. Adds(p, [value |-> record[p], generation |-> 0]) /\ Distinct'
    BY <1>5, <1>7 DEF Adds, Distinct
  <2> QED
    BY <1>6, <1>7, <2>1, <2>2
<1>8. ASSUME NEW number \in Nat, NEW level, Capture(p, number, level), pc[p] = "idle",
             number = calls'[p], calls[p] <= calls'[p], calls'[p] \in Nat,
             \A a \in 1..Len(accepted) :
               accepted[a].value.by = p => accepted[a].value.number < number,
             \A q \in Producers \ {p} : calls'[q] = calls[q]
      PROVE  OnceInv'
  <2>1. accepted' = accepted
    BY <1>8 DEF Capture
  <2>2. Earlier(p)'
    <3>1. ASSUME NEW a \in 1..Len(accepted), accepted[a].value.by = p
          PROVE  accepted[a].value.number < number /\ accepted[a].value.number \in Nat
      BY <1>1, <1>8, <3>1, NumbersAreNat
    <3>2. ASSUME NEW a \in 1..Len(accepted), accepted[a].value.by = p
          PROVE  /\ accepted[a].value.number <= calls'[p]
                 /\ accepted[a].value.number < calls'[p]
      BY <1>8, <3>1, <3>2
    <3> QED
      BY <2>1, <3>2 DEF Earlier
  <2>3. CASE /\ Q!GetGeneration(p)
             /\ record' = [record EXCEPT ![p] =
                              [by |-> p, number |-> number, level |-> level,
                               lifecycle |-> generation]]
             /\ logging' = [logging EXCEPT ![p] = "captured"]
    <3>1. UNCHANGED <<value, pc>>
      BY <2>3 DEF Q!GetGeneration
    <3>2. record'[p].by = p /\ record'[p].number = calls'[p]
      BY <1>1, <1>8, <2>3
    <3>3. Current(p)'
      BY <1>8, <3>1, <3>2 DEF Current, Q!NotFullStates
    <3> QED
      BY <1>1, <1>7, <1>8, <2>1, <2>2, <2>3, <3>1, <3>3
  <2>4. CASE logging' = [logging EXCEPT ![p] = "idle"] /\ UNCHANGED <<queueVars, record>>
    <3>1. UNCHANGED <<value, pc>>
      BY <2>4 DEF queueVars
    <3>2. Current(p)'
      BY <1>1, <1>5, <1>8, <2>4, <3>1 DEF Current, Q!NotFullStates
    <3> QED
      BY <1>1, <1>7, <1>8, <2>1, <2>2, <2>4, <3>1, <3>2
  <2> QED
    BY <1>8, <2>3, <2>4 DEF Capture
<1>9. ASSUME logging[p] = "idle", pc[p] = "idle", calls' = [calls EXCEPT ![p] = @ + 1]
      PROVE  /\ calls'[p] \in Nat /\ calls[p] <= calls'[p]
             /\ \A a \in 1..Len(accepted) :
                  accepted[a].value.by = p => accepted[a].value.number < calls'[p]
             /\ \A q \in Producers \ {p} : calls'[q] = calls[q]
  <2>1. calls[p] \in Nat /\ calls'[p] = calls[p] + 1
    BY <1>1, <1>9
  <2>2. ASSUME NEW a \in 1..Len(accepted), accepted[a].value.by = p
        PROVE  accepted[a].value.number <= calls[p] /\ accepted[a].value.number \in Nat
    BY <1>1, <1>5, <2>2, NumbersAreNat DEF Earlier
  <2> QED
    BY <1>1, <1>9, <2>1, <2>2
<1>10. ASSUME NEW level \in Levels, Log(p, level) PROVE OnceInv'
  BY <1>8, <1>9, <1>10 DEF Log
<1>11. CASE LogStatic(p)
  <2>1. /\ record[p].number = calls[p] /\ pc[p] = "idle" /\ calls' = calls
        /\ Capture(p, record[p].number, record[p].level) /\ calls[p] \in Nat
    BY <1>1, <1>5, <1>11 DEF LogStatic, Current
  <2>2. \A a \in 1..Len(accepted) :
          accepted[a].value.by = p => accepted[a].value.number < calls[p]
    BY <1>5, <1>11 DEF LogStatic, Earlier, Busy
  <2> QED
    BY <1>8, <2>1, <2>2
<1>12. ASSUME NEW level \in Levels, ShouldLog(p, level) PROVE OnceInv'
  <2>1. /\ logging[p] = "idle" /\ pc[p] = "idle"
        /\ calls' = [calls EXCEPT ![p] = @ + 1]
        /\ UNCHANGED <<pc, value, accepted>>
    BY <1>12 DEF ShouldLog, queueVars
  <2>2. /\ calls'[p] \in Nat
        /\ \A a \in 1..Len(accepted) :
             accepted[a].value.by = p => accepted[a].value.number < calls'[p]
        /\ \A q \in Producers \ {p} : calls'[q] = calls[q]
    BY <1>9, <2>1
  <2>3. Earlier(p)'
    <3>1. \A a \in 1..Len(accepted) : accepted[a].value.number \in Nat
      BY <1>1, NumbersAreNat
    <3> QED
      BY <2>1, <2>2, <3>1 DEF Earlier
  <2>4. CASE /\ logging' = [logging EXCEPT ![p] = "admitted"]
             /\ record' = [record EXCEPT ![p].number = calls'[p], ![p].level = level]
    <3>1. /\ record'[p].by = record[p].by /\ record'[p].number = calls'[p]
          /\ \A q \in Producers \ {p} : record'[q] = record[q]
      BY <1>1, <2>4 DEF LogRecord
    <3>2. Current(p)'
      BY <1>5, <2>1, <3>1 DEF Current, Q!NotFullStates
    <3> QED
      BY <1>1, <1>7, <2>1, <2>2, <2>3, <2>4, <3>1, <3>2
  <2>5. CASE UNCHANGED <<logging, record>>
    <3>1. Current(p)'
      BY <1>5, <2>1, <2>5 DEF Current, Q!NotFullStates
    <3> QED
      BY <1>7, <2>1, <2>2, <2>3, <2>5, <3>1
  <2> QED
    BY <1>12, <2>4, <2>5 DEF ShouldLog
<1>13. CASE PushRecord(p)
  <2>1. /\ logging[p] = "captured" /\ Q!Push(p, record[p]) /\ Accept(p)
        /\ UNCHANGED <<record, calls>> /\ logging' = [logging EXCEPT ![p] = "idle"]
    BY <1>13 DEF PushRecord
  <2>2. /\ value' = [value EXCEPT ![p] = record[p]]
        /\ Q!PushLocked(p, record[p], expected[p])
    BY <2>1 DEF Q!Push
  <2>3. record[p].by = p /\ record[p].number = calls[p] /\ Busy(p)
    BY <1>5, <2>1 DEF Current, Busy
  <2>4. value'[p] = record[p] /\ logging'[p] = "idle"
    BY <1>1, <2>1, <2>2
  <2>5. /\ Adds(p, [value |-> record[p], generation |-> expected[p]])
        /\ Distinct' /\ Earlier(p)' /\ Current(p)'
    BY <1>1, <1>2, <1>4, <2>1, <2>2, <2>3, <2>4, PushedOnce
  <2>6. [value |-> record[p], generation |-> expected[p]] \in Q!Entry
    BY <1>1 DEF Q!Entry
  <2> QED
    BY <1>1, <1>6, <2>1, <2>2, <2>5, <2>6
<1>14. CASE ProducerQueueStep(p) /\ Q!PushWake(p)
  <2>1. /\ pc[p] = "notFullWoken" /\ Q!AwaitRoom(p, value[p], expected[p]) /\ Accept(p)
        /\ UNCHANGED <<record, calls, logging, value>>
    BY <1>14 DEF ProducerQueueStep, Q!PushWake
  <2>2. /\ value[p].by = p /\ value[p].number = calls[p] /\ Busy(p)
        /\ logging[p] = "idle"
    BY <1>5, <2>1 DEF Current, Busy, Q!NotFullStates
  <2>3. /\ Adds(p, [value |-> value[p], generation |-> expected[p]])
        /\ Distinct' /\ Earlier(p)' /\ Current(p)'
    BY <1>1, <1>2, <1>4, <2>1, <2>2, PushedOnce
  <2>4. [value |-> value[p], generation |-> expected[p]] \in Q!Entry
    BY <1>1 DEF Q!Entry
  <2> QED
    BY <1>6, <2>1, <2>3, <2>4
<1>15. CASE ProducerQueueStep(p) /\ Q!PushNotify(p)
  <2>1. /\ UNCHANGED <<logging, record, value, calls, accepted>>
        /\ pc[p] = "notifyEmpty"
    BY <1>15 DEF ProducerQueueStep, Q!PushNotify
  <2>2. pc'[p] = "idle" \/ pc'[p] = "notEmptyWoken"
    BY <1>1, <1>15 DEF Q!PushNotify, Q!NotifyOne, Q!OnNotEmpty, Q!TypeOK
  <2>3. logging[p] = "idle"
    BY <1>5, <2>1 DEF Current
  <2>4. Current(p)'
    BY <1>5, <2>1, <2>2, <2>3 DEF Current, Q!NotFullStates
  <2>5. Earlier(p)'
    BY <1>5, <2>1, <2>2, <2>3 DEF Earlier, Busy, Q!NotFullStates
  <2> QED
    BY <1>7, <2>1, <2>4, <2>5
<1> QED
  BY <1>10, <1>11, <1>12, <1>13, <1>14, <1>15
  DEF ProducerStep, ProducerQueueStep, Q!ProducerStep

(* Where nobody calls log() the producers keep their records.              *)
LEMMA StaysOnce ==
  ASSUME OnceInv, UNCHANGED <<logging, record, value, calls>>,
         accepted' \in {accepted, <<>>},
         \A q \in Producers :
           /\ pc'[q] \in Q!NotFullStates => pc[q] \in Q!NotFullStates
           /\ pc[q] = "idle" => pc'[q] = "idle"
  PROVE  OnceInv'
<1>1. \A a \in 1..Len(accepted') :
        a \in 1..Len(accepted) /\ accepted'[a] = accepted[a]
  OBVIOUS
<1>2. Distinct'
  BY <1>1 DEF OnceInv, Distinct
<1>3. ASSUME NEW q \in Producers PROVE Earlier(q)' /\ Current(q)'
  <2>1. Earlier(q)'
    BY <1>1 DEF OnceInv, Earlier, Busy
  <2>2. Current(q)'
    BY DEF OnceInv, Current
  <2> QED
    BY <2>1, <2>2
<1> QED
  BY <1>2, <1>3 DEF OnceInv

(* No step accepts a record for the second time.                           *)
LEMMA NextOnce == TypeInv /\ PlaceInv /\ OnceInv /\ [Next]_vars => OnceInv'
<1> SUFFICES ASSUME TypeInv, PlaceInv, OnceInv, [Next]_vars PROVE OnceInv'
  OBVIOUS
<1>1. Q!TypeOK /\ record \in [Producers -> LogRecord]
  BY DEF TypeInv, TypeOK
<1>2. ASSUME NEW t \in Q!Threads \ Producers, OthersOnlyWake(t), NEW q \in Producers
      PROVE  /\ pc'[q] \in Q!NotFullStates => pc[q] \in Q!NotFullStates
             /\ pc[q] = "idle" => pc'[q] = "idle"
  <2>1. q \in Q!Threads \ {t}
    BY DEF Q!Threads
  <2> QED
    BY <1>2, <2>1 DEF OthersOnlyWake, Q!NotFullStates
<1>3. CASE WorkerStep \/ WorkerTimeout \/ Tick
  <2>1. Worker \in Q!Threads \ Producers
    BY LoggerAssumption DEF Q!Threads
  <2>2. UNCHANGED <<logging, record, value, calls, accepted>>
    BY <1>1, <1>3, WorkerFrame DEF producerVars
  <2>3. OthersOnlyWake(Worker)
    BY <1>3, <2>1, StepWakes
  <2> QED
    BY <1>2, <2>1, <2>2, <2>3, StaysOnce
<1>4. ASSUME NEW k \in Controllers,
             \/ Stop(k) \/ ControlStep(k)
             \/ \E cf \in Configs : InitCall(k, cf)
      PROVE  OnceInv'
  <2>1. k \in Q!Threads \ Producers
    BY LoggerAssumption DEF Q!Threads
  <2>2. UNCHANGED <<logging, record, value, calls>> /\ accepted' \in {accepted, <<>>}
    BY <1>4, ControlFrame
  <2>3. OthersOnlyWake(k)
    BY <1>4, <2>1, StepWakes
  <2> QED
    BY <1>2, <2>1, <2>2, <2>3, StaysOnce
<1>5. ASSUME NEW t \in Q!Threads, CloseNotify(t) \/ SpuriousWake(t) PROVE OnceInv'
  <2>1. UNCHANGED <<logging, record, value, calls, accepted>>
    BY <1>5
    DEF CloseNotify, SpuriousWake, Q!CloseNotify, Q!SpuriousWake, OnlyQueue,
        producerVars
  <2>2. ASSUME NEW q \in Producers
        PROVE  /\ pc'[q] \in Q!NotFullStates => pc[q] \in Q!NotFullStates
               /\ pc[q] = "idle" => pc'[q] = "idle"
    <3>1. q \in Q!Threads
      BY DEF Q!Threads
    <3>2. CASE CloseNotify(t)
      BY <1>1, <3>1, <3>2
      DEF CloseNotify, Q!CloseNotify, Q!NotifyAll, Q!OnNotFull, Q!OnNotEmpty,
          Q!NotFullStates, Q!TypeOK
    <3>3. CASE SpuriousWake(t)
      BY <1>1, <3>1, <3>3
      DEF SpuriousWake, Q!SpuriousWake, Q!NotFullStates, Q!TypeOK
    <3> QED
      BY <1>5, <3>2, <3>3
  <2> QED
    BY <2>1, <2>2, StaysOnce
<1>6. CASE UNCHANGED vars \/ \E level \in Levels : SetLevel(level)
  <2>1. UNCHANGED <<logging, record, value, calls, accepted, pc>>
    BY <1>6 DEF vars, SetLevel, queueVars, producerVars
  <2> QED
    BY <2>1, StaysOnce
<1> QED
  BY <1>3, <1>4, <1>5, <1>6, ProducerOnce DEF Next

(* Initially nothing is accepted.                                          *)
LEMMA InitDelivery == Init => AsleepInv /\ ConservedInv /\ OnceInv
<1> SUFFICES ASSUME Init PROVE AsleepInv /\ ConservedInv /\ OnceInv
  OBVIOUS
<1>1. AsleepInv
  BY DEF Init, Q!Init, AsleepInv, Q!NotEmptyStates, Q!Threads
<1>2. ConservedInv
  BY DEF Init, ConservedInv
<1>3. Distinct /\ \A p \in Producers : Earlier(p)
  BY DEF Init, Distinct, Earlier
<1>4. ASSUME NEW p \in Producers PROVE Current(p)
  <2>1. record[p].by = p /\ logging[p] = "idle" /\ pc[p] = "idle"
    BY DEF Init, Q!Init, Q!Threads
  <2> QED
    BY <2>1 DEF Current, Q!NotFullStates
<1> QED
  BY <1>1, <1>2, <1>3, <1>4 DEF OnceInv

(* No record is accepted, kept or written twice, none overtakes another on *)
(* the way to a sink, and until a sink throws none is missing but those    *)
(* that DropOldest has counted.                                            *)
THEOREM DeliveryCorrect == Spec => []Conservation
<1> DEFINE Inv == TypeInv /\ PlaceInv /\ AsleepInv /\ ConservedInv /\ OnceInv
<1>1. Init => Inv
  BY InitTypes, InitPlaces, InitDelivery
<1>2. Inv /\ [Next]_vars => Inv'
  BY NextTypes, NextPlaces, NextFlows, FlowsKeep, NextOnce
<1>3. Inv => Conservation
  <2> SUFFICES ASSUME Inv PROVE Conservation
    OBVIOUS
  <2>1. accepted \in Seq(Q!Entry)
    BY DEF TypeInv, TypeOK
  <2>2. \A a, b \in DOMAIN accepted : accepted[a] = accepted[b] => a = b
    BY <2>1 DEF OnceInv, Distinct
  <2> QED
    BY <2>2 DEF Conservation, ConservedInv, Kept, Dropped
<1> QED
  BY <1>1, <1>2, <1>3, PTL DEF Spec

--------------------------------------------------------------------------------
(* stop() drains what was accepted, unless a pop function may time out     *)

(* No configuration asks for the timer: the worker waits in popBatch()     *)
(* only, and does not leave it before it has elements or the queue is      *)
(* closed.                                                                 *)
Untimed == \A cf \in Configs : cf.flushPolicy # "Periodic"

(* The worker is past the end of the queue, with nothing having gone wrong *)
AtEnd ==
  \/ worker = "popping" /\ result[Worker] = "noValues"
  \/ worker \in {"check", "finalFlush", "exited"} /\ fault = "none"

(* It gets there only when the queue is empty and closed, so that nothing  *)
(* comes into it any more.                                                 *)
DrainInv ==
  /\ worker \in {"failing", "closing", "failingLast", "closingLast"} => fault # "none"
  /\ pc[Worker] \in Q!NotEmptyStates =>
       method[Worker] = "popBatch" /\ pc[Worker] # "notEmptyTimedOut"
  /\ AtEnd => queue = <<>> /\ closed

(* A closed queue takes no element, nor one of an earlier generation.      *)
LEMMA RejectedRefuses ==
  ASSUME NEW g, Q!Rejected(g), NEW p, NEW v, Q!PushLocked(p, v, g) \/ Q!AwaitRoom(p, v, g)
  PROVE  queue' = queue /\ pc' = [pc EXCEPT ![p] = "idle"]
BY DEF Q!PushLocked, Q!AwaitRoom, Q!Rejected, Q!WaitOver, Q!Refuse, Q!Finish, Q!members

(* Other threads neither move the worker nor reopen or fill the queue.     *)
LEMMA OthersKeepDrained ==
  ASSUME DrainInv, NEW t \in Q!Threads, t # Worker, OthersOnlyWake(t),
         UNCHANGED <<worker, fault, method>>,
         closed => closed' /\ queue' = queue
  PROVE  DrainInv'
<1>1. /\ Worker \in Q!Threads \ {t} /\ result'[Worker] = result[Worker]
      /\ pc'[Worker] \in Q!NotEmptyStates =>
           /\ pc[Worker] \in Q!NotEmptyStates
           /\ pc'[Worker] = "notEmptyTimedOut" => pc[Worker] = "notEmptyTimedOut"
  BY DEF OthersOnlyWake, Q!Threads, Q!NotEmptyStates
<1> QED
  BY <1>1 DEF DrainInv, AtEnd

(* A producer puts nothing into a closed queue, so what is drained stays   *)
(* so.                                                                     *)
LEMMA ProducerKeepsDrained ==
  ASSUME TypeInv, DrainInv, NEW p \in Producers,
         \/ ProducerStep(p)
         \/ \E level \in Levels : ShouldLog(p, level) \/ Log(p, level)
  PROVE  DrainInv'
<1>1. /\ Q!TypeOK /\ record \in [Producers -> LogRecord]
      /\ p \in Q!Threads /\ p # Worker
  BY LoggerAssumption DEF TypeInv, TypeOK, Q!Threads
<1>2. UNCHANGED <<worker, fault, method, closed>>
  BY <1>1, ProducerFrame DEF sinkVars, workerVars
<1>3. OthersOnlyWake(p)
  BY <1>1, StepWakes
<1>4. ASSUME closed PROVE queue' = queue
  <2>1. CASE LogStatic(p) \/ \E level \in Levels : ShouldLog(p, level) \/ Log(p, level)
    BY <2>1 DEF LogStatic, ShouldLog, Log, Capture, Q!GetGeneration, Q!members, queueVars
  <2>2. CASE PushRecord(p)
    BY <1>4, <2>2, RejectedRefuses DEF PushRecord, Q!Push, Q!Rejected
  <2>3. CASE ProducerQueueStep(p)
    BY <1>4, <2>3, RejectedRefuses
    DEF ProducerQueueStep, Q!ProducerStep, Q!PushWake, Q!PushNotify, Q!members,
        Q!Rejected
  <2> QED
    BY <2>1, <2>2, <2>3 DEF ProducerStep
<1> QED
  BY <1>1, <1>2, <1>3, <1>4, OthersKeepDrained

(* The steps of init() and stop(): where they reopen the queue there is no *)
(* worker.                                                                 *)
LEMMA ControlKeepsDrained ==
  ASSUME TypeInv, PlaceInv, DrainInv, NEW k \in Controllers,
         \/ Stop(k) \/ ControlStep(k)
         \/ \E cf \in Configs : InitCall(k, cf)
  PROVE  DrainInv'
<1>1. k \in Q!Threads /\ k # Worker /\ Q!TypeOK
  BY LoggerAssumption DEF TypeInv, TypeOK, Q!Threads
<1>2. OthersOnlyWake(k)
  BY <1>1, StepWakes
<1>3. CASE \/ Stop(k) \/ InitConfigure(k) \/ InitAbort(k) \/ InitAborted(k)
           \/ StopClose(k) \/ \E cf \in Configs : InitCall(k, cf)
  <2>1. UNCHANGED <<worker, fault, method, queue>> /\ (closed => closed')
    BY <1>3
    DEF Stop, InitConfigure, InitAbort, InitAborted, StopClose, InitCall, Q!Close,
        queueVars, sinkVars, workerVars
  <2> QED
    BY <1>1, <1>2, <2>1, OthersKeepDrained
<1>4. ASSUME worker' \in {"none", "starting"}, worker = "none" \/ worker = "exited",
             pc[Worker] = "idle"
      PROVE  DrainInv'
  <2>1. Worker \in Q!Threads \ {k}
    BY <1>1 DEF Q!Threads
  <2>2. pc'[Worker] = "idle"
    BY <1>2, <1>4, <2>1 DEF OthersOnlyWake
  <2> QED
    BY <1>4, <2>2 DEF DrainInv, AtEnd, Q!NotEmptyStates
<1>5. worker = "none" => pc[Worker] = "idle"
  BY DEF PlaceInv, WorkerPlaces
<1>6. CASE InitJoin(k) \/ StopJoin(k)
  BY <1>4, <1>5, <1>6 DEF InitJoin, StopJoin, JoinWorker, Joinable, Exited
<1>7. CASE InitReset(k) \/ InitSpawn(k)
  <2>1. worker = "none" /\ worker' \in {"none", "starting"}
    BY <1>7 DEF InitReset, InitSpawn, workerVars, PlaceInv, ControlPlaces
  <2> QED
    BY <1>4, <1>5, <2>1
<1> QED
  BY <1>3, <1>6, <1>7 DEF ControlStep

(* The steps of the worker: popBatch() returns nothing only when the queue *)
(* is closed and empty.                                                    *)
LEMMA WorkerKeepsDrained ==
  ASSUME Untimed, TypeInv, PlaceInv, DrainInv, WorkerStep \/ WorkerTimeout \/ Tick
  PROVE  DrainInv'
<1>1. Q!TypeOK /\ ~Periodic
  BY DEF TypeInv, TypeOK, Untimed, Periodic
<1>2. ASSUME NEW n \in Nat \ {0}, worker' = "popping", method'[Worker] = "popBatch",
             \/ Q!Ready /\ Q!TakeLocked(Worker, "popBatch", n)
             \/ Q!ParkOnNotEmpty(Worker)
      PROVE  DrainInv'
  <2>1. CASE Q!Ready /\ Q!TakeLocked(Worker, "popBatch", n)
    <3>1. Takes(Worker)
      BY <1>1, <2>1, TakeDoes
    <3>2. pc'[Worker] \notin Q!NotEmptyStates
      BY <3>1 DEF Takes, Q!NotEmptyStates
    <3>3. result'[Worker] = "noValues" => queue' = <<>> /\ closed'
      BY <2>1, <3>1 DEF Takes, Q!Ready
    <3> QED
      BY <1>2, <3>2, <3>3 DEF DrainInv, AtEnd
  <2>2. CASE Q!ParkOnNotEmpty(Worker)
    <3>1. result'[Worker] = "none" /\ pc'[Worker] = "notEmptyWait"
      BY <1>1, <2>2 DEF Q!ParkOnNotEmpty, Q!Finish, Q!TypeOK, Q!Threads
    <3> QED
      BY <1>2, <3>1 DEF DrainInv, AtEnd
  <2> QED
    BY <1>2, <2>1, <2>2
<1>3. CASE WorkerPop
  <2>1. Q!Pop(Worker, "popBatch", config.writeBatchSize) /\ worker' = "popping"
    BY <1>1, <1>3 DEF WorkerPop
  <2>2. config.writeBatchSize \in Nat \ {0}
    BY <2>1, ConfigType DEF Q!Pop, TypeInv, TypeOK
  <2>3. method'[Worker] = "popBatch"
    BY <1>1, <2>1 DEF Q!Pop, Q!TypeOK
  <2> QED
    BY <1>2, <2>1, <2>2, <2>3 DEF Q!Pop
<1>4. CASE WorkerQueueStep
  <2>1. UNCHANGED <<fault, worker>> /\ Q!ConsumerStep(Worker)
    BY <1>4 DEF WorkerQueueStep, OnlyQueue, sinkVars, workerVars
  <2>2. CASE Q!PopWake(Worker)
    <3>1. /\ worker' = "popping" /\ method[Worker] = "popBatch"
          /\ method'[Worker] = "popBatch" /\ maxCount[Worker] \in Nat \ {0}
      BY <1>1, <2>1, <2>2
      DEF Q!PopWake, Q!NotEmptyStates, DrainInv, PlaceInv, WorkerPlaces, Q!TypeOK
    <3> QED
      BY <1>2, <2>2, <3>1 DEF Q!PopWake
  <2>3. ~Q!PopTimedOut(Worker)
    BY DEF Q!PopTimedOut, DrainInv, Q!NotEmptyStates
  <2>4. CASE Q!PopNotify(Worker)
    <3>1. /\ UNCHANGED <<queue, closed, result>>
          /\ pc'[Worker] \notin Q!NotEmptyStates
      BY <1>1, <2>4
      DEF Q!PopNotify, Q!NotifyOne, Q!NotifyAll, Q!OnNotFull, Q!members, Q!TypeOK,
          Q!Threads, Q!NotEmptyStates
    <3> QED
      BY <2>1, <3>1 DEF DrainInv, AtEnd
  <2> QED
    BY <2>1, <2>2, <2>3, <2>4 DEF Q!ConsumerStep
<1>5. ~WorkerTimeout /\ ~Tick
  BY <1>1 DEF WorkerTimeout, Q!PopTimeout, DrainInv, Q!NotEmptyStates, Tick
<1>6. CASE WorkerCloses
  <2>1. /\ fault' = fault /\ fault # "none" /\ pc'[Worker] = "closeEmpty"
        /\ worker' \in {"finalFlush", "exited"}
    BY <1>1, <1>6
    DEF WorkerCloses, AfterClose, Q!Close, sinkVars, Q!TypeOK, Q!Threads, DrainInv
  <2> QED
    BY <2>1 DEF DrainInv, AtEnd, Q!NotEmptyStates
<1>7. ASSUME UNCHANGED queueVars,
             worker' \in {"failing", "closing", "failingLast", "closingLast"} =>
               fault' # "none",
             worker' # "popping",
             worker' \in {"check", "finalFlush", "exited"} /\ fault' = "none" => AtEnd
      PROVE  DrainInv'
  <2>1. UNCHANGED <<queue, closed, pc, method>>
    BY <1>7 DEF queueVars
  <2> QED
    BY <1>7, <2>1 DEF DrainInv, AtEnd
<1>8. CASE WorkerStart \/ WriteBatch
  BY <1>7, <1>8 DEF WorkerStart, WriteBatch, GoOn, OnlyWorker
<1>9. CASE FlushAfterBatch
  BY <1>7, <1>9 DEF FlushAfterBatch, GoOn, OnlyWorker, FlushSinks, NextRound
<1>10. CASE NoBatch
  BY <1>7, <1>10 DEF NoBatch, GoOn, OnlyWorker, FlushSinks, AtEnd
<1>11. CASE CheckClosed
  BY <1>7, <1>11 DEF CheckClosed, AfterNoBatch, GoOn, OnlyWorker, AtEnd
<1>12. CASE WorkerFails
  BY <1>7, <1>12 DEF WorkerFails, AfterFault, OnlyWorker, DrainInv
<1>13. CASE FinalFlush
  BY <1>7, <1>13 DEF FinalFlush, FlushSinks, OnlyWorker, AtEnd
<1> QED
  BY <1>3, <1>4, <1>5, <1>6, <1>8, <1>9, <1>10, <1>11, <1>12, <1>13 DEF WorkerStep

(* Every step of a program without the timer keeps the drained queue       *)
(* closed and empty.                                                       *)
LEMMA NextDrained ==
  ASSUME Untimed
  PROVE  TypeInv /\ PlaceInv /\ DrainInv /\ [Next]_vars => DrainInv'
<1> SUFFICES ASSUME TypeInv, PlaceInv, DrainInv, [Next]_vars PROVE DrainInv'
  OBVIOUS
<1>1. Q!TypeOK
  BY DEF TypeInv, TypeOK
<1>2. ASSUME NEW t \in Q!Threads, CloseNotify(t) \/ SpuriousWake(t) PROVE DrainInv'
  <2>1. UNCHANGED <<queue, closed, worker, fault, method, result>>
    BY <1>2
    DEF CloseNotify, SpuriousWake, Q!CloseNotify, Q!SpuriousWake, Q!members,
        OnlyQueue, sinkVars, workerVars
  <2>2. pc'[Worker] \in Q!NotEmptyStates =>
          /\ pc[Worker] \in Q!NotEmptyStates
          /\ pc'[Worker] = "notEmptyTimedOut" => pc[Worker] = "notEmptyTimedOut"
    BY <1>1, <1>2
    DEF CloseNotify, SpuriousWake, Q!CloseNotify, Q!SpuriousWake, Q!NotifyAll,
        Q!OnNotFull, Q!OnNotEmpty, Q!NotEmptyStates, Q!TypeOK, Q!Threads
  <2> QED
    BY <2>1, <2>2 DEF DrainInv, AtEnd
<1>3. CASE UNCHANGED vars \/ \E level \in Levels : SetLevel(level)
  <2>1. UNCHANGED <<queue, closed, worker, fault, method, result, pc>>
    BY <1>3 DEF vars, SetLevel, queueVars, sinkVars, workerVars
  <2> QED
    BY <2>1 DEF DrainInv, AtEnd
<1> QED
  BY <1>2, <1>3, ProducerKeepsDrained, WorkerKeepsDrained, ControlKeepsDrained DEF Next

(* Without the timer no accepted record is left in the queue when the      *)
(* worker leaves it without a fault; logger_periodic_drain shows that the  *)
(* hypothesis is needed.                                                   *)
THEOREM DrainCorrect ==
  ASSUME Untimed
  PROVE  Spec => []DrainedAtExit
<1>1. Init => DrainInv
  BY DEF Init, Q!Init, DrainInv, AtEnd, Q!NotEmptyStates, Q!Threads
<1>2. DrainInv => DrainedAtExit
  BY DEF DrainInv, AtEnd, DrainedAtExit
<1>3. TypeInv /\ PlaceInv /\ DrainInv /\ [Next]_vars => DrainInv'
  BY NextDrained
<1> QED
  BY <1>1, <1>2, <1>3, InitTypes, InitPlaces, NextTypes, NextPlaces, PTL DEF Spec

--------------------------------------------------------------------------------
(***************************************************************************)
(* III. Logger keeps its contracts: as the asynchronous log of AsyncLog    *)
(* and as the user of its sinks.                                           *)
(***************************************************************************)

(* Which phase of its life the Logger is in                                *)

(* p has the generation for a push() that has not returned.                *)
Holds(p) == logging[p] = "captured" \/ pc[p] \in Q!NotFullStates

(* init() has reset the queue and not yet made or given up the worker.     *)
Beginning == {"initConfigure", "initSpawn", "initAbort"}
Begins == \E k \in Controllers : control[k] \in Beginning

(* The generation that a producer holds is one that init() has begun, but  *)
(* not the one it is just about to begin.                                  *)
HolderInv ==
  \A p \in Producers :
    /\ expected[p] <= generation
    /\ Holds(p) => expected[p] > 0 /\ (Begins => expected[p] # generation)

(* So nothing comes into the queue until init() is over.                   *)
BeginInv ==
  /\ Begins => generation > 0 /\ queue = <<>> /\ fault = "none"
  /\ \A k \in Controllers :
       control[k] \in {"initJoin", "initReset"} => Valid(request[k])

(* Without a worker the queue is closed, except before the first init()    *)
(* and in the middle of any; with one nothing has gone wrong as long as it *)
(* serves, and it has sinks to serve.                                      *)
PhaseInv ==
  /\ generation = 0 \/ closed \/ worker \notin {"none", "exited"} \/ Begins
  /\ worker = "finalFlush" => closed
  /\ worker \in Serving \ {"failing"} => fault = "none"
  /\ running => generation > 0
  /\ generation = 0 => written = <<>> /\ worker = "none"
  /\ generation # 0 => 1 \in DOMAIN written

ContractInv == HolderInv /\ BeginInv /\ PhaseInv

(* Where only init() or stop() moves, or the worker, nobody gets hold of a *)
(* generation.                                                             *)
LEMMA HoldersStay ==
  ASSUME HolderInv, UNCHANGED <<logging, expected, generation>>, Begins' => Begins,
         \A q \in Producers : pc'[q] \in Q!NotFullStates => pc[q] \in Q!NotFullStates
  PROVE  HolderInv'
BY DEF HolderInv, Holds

(* A thread that is not a producer only wakes those who wait.              *)
LEMMA OthersHold ==
  ASSUME NEW t \in Q!Threads \ Producers, OthersOnlyWake(t), NEW q \in Producers
  PROVE  pc'[q] \in Q!NotFullStates => pc[q] \in Q!NotFullStates
<1>1. q \in Q!Threads \ {t}
  BY DEF Q!Threads
<1> QED
  BY <1>1 DEF OthersOnlyWake, Q!NotFullStates

(* A producer gets the generation under the shared lock, when no init() is *)
(* in progress, and only while running_ is set.                            *)
LEMMA ProducerKeepsContract ==
  ASSUME TypeInv, ContractInv, NEW p \in Producers,
         \/ ProducerStep(p)
         \/ \E level \in Levels : ShouldLog(p, level) \/ Log(p, level)
  PROVE  ContractInv'
<1>1. /\ Q!TypeOK /\ record \in [Producers -> LogRecord]
      /\ logging \in [Producers -> {"idle", "admitted", "captured"}]
      /\ expected \in [Producers -> Nat] /\ generation \in Nat
      /\ value \in [Producers -> LogRecord] /\ p \in Q!Threads
  BY DEF TypeInv, TypeOK, Q!Threads, Q!TypeOK
<1>2. UNCHANGED <<worker, fault, closed, generation, running, control, request, written>>
  BY <1>1, ProducerFrame DEF settingVars, sinkVars, workerVars, controlVars
<1>3. PhaseInv' /\ (Begins' <=> Begins)
  BY <1>2 DEF ContractInv, PhaseInv, Begins
<1>4. ASSUME NEW q \in Producers \ {p}
      PROVE  pc'[q] \in Q!NotFullStates => pc[q] \in Q!NotFullStates
  <2>1. q \in Q!Threads \ {p} /\ OthersOnlyWake(p)
    BY <1>1, StepWakes DEF Q!Threads
  <2> QED
    BY <2>1 DEF OthersOnlyWake, Q!NotFullStates
<1>5. ASSUME Begins => queue' = queue,
             \A q \in Producers \ {p} :
               logging'[q] = logging[q] /\ expected'[q] = expected[q],
             /\ expected'[p] <= generation
             /\ Holds(p)' => expected'[p] > 0 /\ (Begins => expected'[p] # generation)
      PROVE  ContractInv'
  <2>1. BeginInv'
    BY <1>2, <1>3, <1>5 DEF ContractInv, BeginInv
  <2>2. ASSUME NEW q \in Producers
        PROVE  /\ expected'[q] <= generation'
               /\ Holds(q)' => expected'[q] > 0 /\ (Begins' => expected'[q] # generation')
    <3>1. CASE q = p
      BY <1>2, <1>3, <1>5, <3>1
    <3>2. CASE q # p
      <4>1. Holds(q)' => Holds(q)
        BY <1>4, <1>5, <3>2 DEF Holds
      <4> QED
        BY <1>2, <1>3, <1>5, <3>2, <4>1 DEF ContractInv, HolderInv
    <3> QED
      BY <3>1, <3>2
  <2>3. HolderInv'
    BY <2>2 DEF HolderInv
  <2> QED
    BY <1>3, <2>1, <2>3 DEF ContractInv
<1>6. /\ expected[p] <= generation
      /\ Holds(p) => expected[p] > 0 /\ (Begins => expected[p] # generation)
  BY DEF ContractInv, HolderInv
<1>7. ASSUME NEW number, NEW level, Capture(p, number, level) PROVE ContractInv'
  <2>1. ~Begins
    <3>1. \A k \in Controllers : control[k] = "idle"
      BY <1>7, LoggerAssumption DEF Capture, TypeInv, TypeOK
    <3> QED
      BY <3>1 DEF Begins, Beginning
  <2>2. CASE /\ Passes(level) /\ Q!GetGeneration(p)
             /\ logging' = [logging EXCEPT ![p] = "captured"]
    <3>1. expected' = [expected EXCEPT ![p] = generation] /\ generation > 0
      BY <2>2 DEF Q!GetGeneration, Passes, ContractInv, PhaseInv
    <3>2. /\ expected'[p] = generation
          /\ \A q \in Producers \ {p} :
               logging'[q] = logging[q] /\ expected'[q] = expected[q]
      BY <1>1, <2>2, <3>1
    <3> QED
      BY <1>1, <1>5, <2>1, <3>1, <3>2
  <2>3. CASE logging' = [logging EXCEPT ![p] = "idle"] /\ UNCHANGED queueVars
    <3>1. /\ UNCHANGED <<queue, expected, pc>> /\ (Holds(p)' => Holds(p))
          /\ \A q \in Producers \ {p} : logging'[q] = logging[q]
      BY <1>1, <2>3 DEF queueVars, Holds
    <3> QED
      BY <1>5, <1>6, <3>1
  <2> QED
    BY <1>7, <2>2, <2>3 DEF Capture
<1>8. CASE LogStatic(p) \/ \E level \in Levels : Log(p, level)
  BY <1>7, <1>8 DEF LogStatic, Log
<1>9. ASSUME NEW level \in Levels, ShouldLog(p, level) PROVE ContractInv'
  <2>1. /\ UNCHANGED <<queue, expected, pc>> /\ (Holds(p)' => Holds(p))
        /\ \A q \in Producers \ {p} : logging'[q] = logging[q]
    BY <1>1, <1>9 DEF ShouldLog, queueVars, Holds
  <2> QED
    BY <1>5, <1>6, <2>1
<1>10. ASSUME Holds(p), NEW v, Q!PushLocked(p, v, expected[p]) \/ Q!AwaitRoom(p, v, expected[p]),
              expected' = expected,
              \A q \in Producers \ {p} : logging'[q] = logging[q]
       PROVE  ContractInv'
  <2>1. Begins => queue' = queue
    BY <1>6, <1>10, RejectedRefuses DEF Q!Rejected
  <2> QED
    BY <1>5, <1>6, <1>10, <2>1
<1>11. CASE PushRecord(p)
  BY <1>1, <1>10, <1>11 DEF PushRecord, Q!Push, Holds
<1>12. CASE ProducerQueueStep(p) /\ Q!PushWake(p)
  BY <1>10, <1>12 DEF ProducerQueueStep, Q!PushWake, Holds, Q!NotFullStates
<1>13. CASE ProducerQueueStep(p) /\ Q!PushNotify(p)
  <2>1. UNCHANGED <<queue, expected, logging>>
    BY <1>13 DEF ProducerQueueStep, Q!PushNotify, Q!members
  <2>2. pc'[p] = "idle" \/ pc'[p] = "notEmptyWoken"
    BY <1>1, <1>13 DEF Q!PushNotify, Q!NotifyOne, Q!OnNotEmpty, Q!TypeOK
  <2>3. Holds(p)' => Holds(p)
    BY <2>1, <2>2 DEF Holds, Q!NotFullStates
  <2> QED
    BY <1>5, <1>6, <2>1, <2>3
<1> QED
  BY <1>8, <1>9, <1>11, <1>12, <1>13
  DEF ProducerStep, ProducerQueueStep, Q!ProducerStep

(* The steps of the worker, which is there only after init() is over       *)
LEMMA WorkerKeepsContract ==
  ASSUME TypeInv, PlaceInv, ContractInv, WorkerStep \/ WorkerTimeout \/ Tick
  PROVE  ContractInv'
<1>1. Q!TypeOK /\ Worker \in Q!Threads \ Producers
  BY LoggerAssumption DEF TypeInv, TypeOK, Q!Threads
<1>2. UNCHANGED <<control, request, logging, expected, generation>>
  BY <1>1, WorkerFrame DEF producerVars, controlVars
<1>3. Begins' <=> Begins
  BY <1>2 DEF Begins
<1>4. HolderInv'
  <2>1. OthersOnlyWake(Worker)
    BY <1>1, StepWakes
  <2> QED
    BY <1>1, <1>2, <1>3, <2>1, HoldersStay, OthersHold DEF ContractInv
<1>5. ASSUME worker # "none", worker' # "none", closed => closed', running' => running,
             DOMAIN written' = DOMAIN written,
             worker' \in {"exited", "finalFlush"} => closed',
             worker' \in Serving \ {"failing"} => fault' = "none"
      PROVE  ContractInv'
  <2>1. ~Begins
    BY <1>5 DEF Begins, Beginning, PlaceInv, ControlPlaces
  <2>2. generation # 0
    BY <1>5 DEF ContractInv, PhaseInv
  <2>3. BeginInv'
    BY <1>2, <1>3, <2>1 DEF ContractInv, BeginInv
  <2>4. PhaseInv'
    BY <1>2, <1>5, <2>2 DEF ContractInv, PhaseInv
  <2> QED
    BY <1>4, <2>3, <2>4 DEF ContractInv
<1>6. CASE WorkerPop
  <2>1. /\ worker = "loop" /\ worker' = "popping"
        /\ UNCHANGED <<closed, running, written, fault>>
    BY <1>6
    DEF WorkerPop, settingVars, sinkVars, Q!Pop, Q!TakeLocked, Q!ParkOnNotEmpty,
        Q!members
  <2> QED
    BY <1>5, <2>1 DEF ContractInv, PhaseInv, Serving
<1>7. CASE WorkerQueueStep \/ WorkerTimeout
  <2>1. UNCHANGED <<closed, running, written, fault, worker>>
    BY <1>7
    DEF WorkerQueueStep, WorkerTimeout, OnlyQueue, settingVars, sinkVars, workerVars,
        Q!ConsumerStep, Q!PopWake, Q!PopTimedOut, Q!PopNotify, Q!PopTimeout,
        Q!TakeLocked, Q!ParkOnNotEmpty, Q!members
  <2>2. pc[Worker] # "idle"
    BY <1>7
    DEF WorkerQueueStep, WorkerTimeout, Q!ConsumerStep, Q!PopWake, Q!PopTimedOut,
        Q!PopNotify, Q!PopTimeout
  <2>3. worker # "none"
    BY <2>2 DEF PlaceInv, WorkerPlaces
  <2>4. worker = "exited" => closed
    <3>1. ~Begins
      BY <2>3 DEF Begins, Beginning, PlaceInv, ControlPlaces
    <3> QED
      BY <2>3, <3>1 DEF ContractInv, PhaseInv
  <2> QED
    BY <1>5, <2>1, <2>3, <2>4 DEF ContractInv, PhaseInv
<1>8. CASE Tick
  <2>1. /\ UNCHANGED <<closed, running, written, fault, worker>>
        /\ worker \notin {"none", "exited"}
    BY <1>8 DEF Tick, queueVars, settingVars, sinkVars
  <2> QED
    BY <1>5, <2>1 DEF ContractInv, PhaseInv
<1>9. CASE WorkerCloses
  <2>1. /\ worker \in {"closing", "closingLast"} /\ worker' \in {"finalFlush", "exited"}
        /\ closed' /\ UNCHANGED <<running, written>>
    BY <1>9 DEF WorkerCloses, AfterClose, Q!Close, settingVars, sinkVars
  <2> QED
    BY <1>5, <2>1 DEF Serving
<1>10. CASE WorkerStart
  BY <1>5, <1>10
  DEF WorkerStart, GoOn, OnlyWorker, queueVars, ContractInv, PhaseInv, Serving
<1>11. CASE WriteBatch
  <2>1. DOMAIN written' = DOMAIN written
    BY <1>11 DEF WriteBatch, WrittenUntil
  <2> QED
    BY <1>5, <1>11, <2>1
    DEF WriteBatch, OnlyWorker, queueVars, ContractInv, PhaseInv, Serving
<1>12. CASE FlushAfterBatch
  BY <1>5, <1>12
  DEF FlushAfterBatch, GoOn, FlushSinks, NextRound, OnlyWorker, queueVars, ContractInv,
      PhaseInv, Serving
<1>13. CASE NoBatch
  BY <1>5, <1>13
  DEF NoBatch, GoOn, FlushSinks, OnlyWorker, queueVars, ContractInv, PhaseInv, Serving
<1>14. CASE CheckClosed
  BY <1>5, <1>14
  DEF CheckClosed, AfterNoBatch, GoOn, OnlyWorker, queueVars, ContractInv, PhaseInv,
      Serving
<1>15. CASE WorkerFails
  BY <1>5, <1>15 DEF WorkerFails, AfterFault, OnlyWorker, queueVars, Serving
<1>16. CASE FinalFlush
  BY <1>5, <1>16
  DEF FinalFlush, FlushSinks, OnlyWorker, queueVars, ContractInv, PhaseInv, Serving
<1> QED
  BY <1>6, <1>7, <1>8, <1>9, <1>10, <1>11, <1>12, <1>13, <1>14, <1>15, <1>16
  DEF WorkerStep

(* The steps of init() and stop(): while one of them is inside, no other   *)
(* controller is.                                                          *)
LEMMA ControlKeepsContract ==
  ASSUME TypeInv, PlaceInv, ContractInv, NEW k \in Controllers,
         \/ Stop(k) \/ ControlStep(k)
         \/ \E cf \in Configs : InitCall(k, cf)
  PROVE  ContractInv'
<1>1. /\ Q!TypeOK /\ k \in Q!Threads \ Producers /\ generation \in Nat
      /\ expected \in [Producers -> Nat]
      /\ control \in [Controllers -> ControlStates] /\ Nobody \notin Controllers
      /\ request \in [Controllers -> Configs]
  BY LoggerAssumption DEF TypeInv, TypeOK, Q!Threads, Q!TypeOK
<1>2. \A j \in Controllers \ {k} :
        control[k] # "idle" \/ lifecycleOwner = Nobody => control[j] = "idle"
  BY <1>1 DEF TypeInv, TypeOK
<1>3. UNCHANGED <<logging, expected>>
  BY ControlFrame
<1>4. \A q \in Producers : pc'[q] \in Q!NotFullStates => pc[q] \in Q!NotFullStates
  BY <1>1, StepWakes, OthersHold
<1>5. control[k] # "idle" \/ lifecycleOwner = Nobody
  BY DEF Stop, InitCall, ControlStep, InitJoin, InitReset, InitConfigure, InitSpawn,
         InitAbort, InitAborted, StopClose, StopJoin
<1>6. Begins <=> control[k] \in Beginning
  BY <1>2, <1>5 DEF Begins, Beginning
<1>7. ASSUME NEW s \in ControlStates, control' = [control EXCEPT ![k] = s]
      PROVE  /\ Begins' <=> s \in Beginning
             /\ \A j \in Controllers \ {k} : control'[j] = "idle"
             /\ control'[k] = s
  BY <1>1, <1>2, <1>5, <1>7 DEF Begins, Beginning
<1>8. ASSUME NEW s \in ControlStates, control' = [control EXCEPT ![k] = s],
             s \notin Beginning \/ control[k] \in Beginning,
             s \in {"initJoin", "initReset"} => Valid(request'[k]),
             UNCHANGED <<generation, queue, fault>>, PhaseInv'
      PROVE  ContractInv'
  <2>1. BeginInv'
    BY <1>6, <1>7, <1>8 DEF ContractInv, BeginInv
  <2>2. HolderInv'
    BY <1>3, <1>4, <1>6, <1>7, <1>8, HoldersStay DEF ContractInv
  <2> QED
    BY <1>8, <2>1, <2>2 DEF ContractInv
<1>9. ASSUME NEW cf \in Configs, InitCall(k, cf) PROVE ContractInv'
  <2>1. UNCHANGED <<generation, queue, closed, worker, running, fault, written>>
    BY <1>9 DEF InitCall, queueVars, settingVars, sinkVars, workerVars
  <2>2. control[k] = "idle" /\ ~Begins
    BY <1>6, <1>9 DEF InitCall, Beginning
  <2>3. PhaseInv'
    BY <2>1, <2>2 DEF ContractInv, PhaseInv
  <2>4. CASE control' = control /\ request' = request
    <3>1. control' = [control EXCEPT ![k] = "idle"]
      BY <1>1, <2>2, <2>4
    <3> QED
      BY <1>8, <2>1, <2>3, <3>1 DEF ControlStates, Beginning
  <2>5. CASE /\ Valid(cf) /\ control' = [control EXCEPT ![k] = "initJoin"]
             /\ request' = [request EXCEPT ![k] = cf]
    <3>1. Valid(request'[k])
      BY <1>1, <2>5
    <3> QED
      BY <1>8, <2>1, <2>3, <2>5, <3>1 DEF ControlStates, Beginning
  <2> QED
    BY <1>9, <2>4, <2>5 DEF InitCall
<1>10. CASE Stop(k)
  <2>1. /\ UNCHANGED <<generation, queue, closed, worker, fault, written>> /\ ~running'
        /\ control' = [control EXCEPT ![k] = "stopClose"] /\ control[k] = "idle"
    BY <1>10 DEF Stop, queueVars, sinkVars, workerVars
  <2>2. PhaseInv'
    BY <1>6, <2>1 DEF ContractInv, PhaseInv, Beginning
  <2> QED
    BY <1>8, <2>1, <2>2 DEF ControlStates, Beginning
<1>11. CASE InitJoin(k) \/ StopJoin(k)
  <2>1. /\ UNCHANGED <<generation, queue, closed, running, fault, written, request>>
        /\ worker' = "none" /\ worker \in {"none", "exited"}
        /\ control[k] \in {"initJoin", "stopJoin"}
    BY <1>11
    DEF InitJoin, StopJoin, queueVars, settingVars, JoinWorker, Joinable, Exited,
        Return, Go
  <2>2. PhaseInv'
    BY <1>6, <2>1 DEF ContractInv, PhaseInv, Beginning, Serving
  <2>3. CASE control' = [control EXCEPT ![k] = "idle"]
    BY <1>8, <2>1, <2>2, <2>3 DEF ControlStates, Beginning
  <2>4. CASE /\ control[k] = "initJoin"
             /\ control' = [control EXCEPT ![k] = "initReset"]
    <3>1. Valid(request'[k])
      BY <2>1, <2>4 DEF ContractInv, BeginInv
    <3> QED
      BY <1>8, <2>1, <2>2, <2>4, <3>1 DEF ControlStates, Beginning
  <2> QED
    BY <1>11, <2>3, <2>4 DEF InitJoin, StopJoin, Return, Go
<1>12. CASE InitReset(k)
  <2>1. /\ control[k] = "initReset" /\ request' = request
        /\ control' = [control EXCEPT ![k] = "initConfigure"]
        /\ generation' = generation + 1 /\ queue' = <<>> /\ fault' = "none"
        /\ written' = [i \in 1..request[k].sinks |-> <<>>]
        /\ UNCHANGED <<worker, running>>
    BY <1>12 DEF InitReset, Q!Reset, Go, settingVars, workerVars
  <2>2. Begins' /\ \A j \in Controllers \ {k} : control'[j] = "idle"
    BY <1>7, <2>1 DEF ControlStates, Beginning
  <2>3. request[k].sinks > 0 /\ request[k].sinks \in Nat
    BY <1>1, <2>1, ConfigType DEF ContractInv, BeginInv, Valid
  <2>4. 1 \in DOMAIN written'
    BY <2>1, <2>3
  <2>5. worker = "none" /\ generation' > 0 /\ generation' # 0
    BY <1>1, <2>1 DEF PlaceInv, ControlPlaces
  <2>6. PhaseInv'
    BY <2>1, <2>2, <2>4, <2>5 DEF PhaseInv, Serving
  <2>7. BeginInv'
    <3>1. control'[k] = "initConfigure"
      BY <1>1, <2>1
    <3> QED
      BY <2>1, <2>2, <2>5, <3>1 DEF BeginInv
  <2>8. HolderInv'
    <3>1. \A p \in Producers :
            expected'[p] <= generation' /\ expected'[p] # generation'
      BY <1>1, <1>3, <2>1 DEF ContractInv, HolderInv
    <3>2. \A p \in Producers : Holds(p)' => expected'[p] > 0
      BY <1>3, <1>4 DEF ContractInv, HolderInv, Holds
    <3> QED
      BY <3>1, <3>2 DEF HolderInv
  <2> QED
    BY <2>6, <2>7, <2>8 DEF ContractInv
<1>13. CASE InitConfigure(k)
  <2>1. /\ control[k] = "initConfigure" /\ request' = request
        /\ control' = [control EXCEPT ![k] = "initSpawn"]
        /\ UNCHANGED <<generation, queue, closed, worker, fault, written>>
    BY <1>13 DEF InitConfigure, Go, queueVars, workerVars
  <2>2. Begins' /\ generation > 0
    BY <1>6, <1>7, <2>1 DEF ControlStates, Beginning, ContractInv, BeginInv
  <2>3. PhaseInv'
    BY <2>1, <2>2 DEF ContractInv, PhaseInv
  <2> QED
    BY <1>8, <2>1, <2>3 DEF ControlStates, Beginning
<1>14. CASE InitSpawn(k)
  <2>1. /\ control[k] = "initSpawn" /\ request' = request
        /\ UNCHANGED <<generation, queue, closed, fault, written>>
        /\ running' => running
    BY <1>14 DEF InitSpawn, Return, Go, queueVars, sinkVars
  <2>2. generation > 0 /\ fault = "none"
    BY <1>6, <2>1 DEF Beginning, ContractInv, BeginInv
  <2>3. CASE worker' = "starting" /\ control' = [control EXCEPT ![k] = "idle"]
    <3>1. PhaseInv'
      BY <1>1, <2>1, <2>2, <2>3 DEF ContractInv, PhaseInv
    <3> QED
      BY <1>8, <2>1, <2>3, <3>1 DEF ControlStates, Beginning
  <2>4. CASE worker' = worker /\ control' = [control EXCEPT ![k] = "initAbort"]
    <3>1. Begins'
      BY <1>7, <2>4 DEF ControlStates, Beginning
    <3>2. PhaseInv'
      BY <2>1, <2>4, <3>1 DEF ContractInv, PhaseInv
    <3> QED
      BY <1>8, <2>1, <2>4, <3>2 DEF ControlStates, Beginning
  <2> QED
    BY <1>14, <2>3, <2>4 DEF InitSpawn, Return, Go, workerVars
<1>15. CASE InitAbort(k) \/ StopClose(k)
  <2>1. /\ request' = request /\ UNCHANGED <<generation, queue, worker, running, fault, written>>
        /\ closed'
        /\ \E s \in {"initAborting", "stopJoin"} : control' = [control EXCEPT ![k] = s]
    BY <1>15 DEF InitAbort, StopClose, Go, Q!Close, settingVars, sinkVars, workerVars
  <2>2. PhaseInv'
    BY <2>1 DEF ContractInv, PhaseInv
  <2> QED
    BY <1>8, <2>1, <2>2 DEF ControlStates, Beginning
<1>16. CASE InitAborted(k)
  <2>1. /\ UNCHANGED <<generation, queue, closed, worker, running, fault, written>>
        /\ control[k] = "initAborting" /\ control' = [control EXCEPT ![k] = "idle"]
    BY <1>16 DEF InitAborted, Return, queueVars, settingVars, workerVars
  <2>2. PhaseInv'
    BY <1>6, <2>1 DEF ContractInv, PhaseInv, Beginning
  <2> QED
    BY <1>8, <2>1, <2>2 DEF ControlStates, Beginning
<1> QED
  BY <1>9, <1>10, <1>11, <1>12, <1>13, <1>14, <1>15, <1>16 DEF ControlStep

(* Initially nothing has begun.                                            *)
LEMMA InitContract == Init => ContractInv
BY DEF Init, Q!Init, ContractInv, HolderInv, BeginInv, PhaseInv, Holds, Begins,
       Beginning, Q!NotFullStates, Q!Threads, Serving

(* Every step keeps the invariant.                                         *)
LEMMA NextContract == TypeInv /\ PlaceInv /\ ContractInv /\ [Next]_vars => ContractInv'
<1> SUFFICES ASSUME TypeInv, PlaceInv, ContractInv, [Next]_vars PROVE ContractInv'
  OBVIOUS
<1>1. ASSUME UNCHANGED <<logging, expected, generation, control, request, queue, fault,
                         closed, worker, running, written>>,
             \A q \in Producers : pc'[q] \in Q!NotFullStates => pc[q] \in Q!NotFullStates
      PROVE  ContractInv'
  <2>1. Begins' <=> Begins
    BY <1>1 DEF Begins
  <2>2. HolderInv'
    BY <1>1, <2>1, HoldersStay DEF ContractInv
  <2>3. BeginInv' /\ PhaseInv'
    BY <1>1, <2>1 DEF ContractInv, BeginInv, PhaseInv
  <2> QED
    BY <2>2, <2>3 DEF ContractInv
<1>2. ASSUME NEW t \in Q!Threads, CloseNotify(t) \/ SpuriousWake(t) PROVE ContractInv'
  <2>1. UNCHANGED <<logging, expected, generation, control, request, queue, fault,
                    closed, worker, running, written>>
    BY <1>2
    DEF CloseNotify, SpuriousWake, Q!CloseNotify, Q!SpuriousWake, Q!members,
        OnlyQueue, settingVars, sinkVars, workerVars, producerVars, controlVars
  <2>2. ASSUME NEW q \in Producers
        PROVE  pc'[q] \in Q!NotFullStates => pc[q] \in Q!NotFullStates
    <3>1. q \in Q!Threads /\ Q!TypeOK
      BY DEF Q!Threads, TypeInv, TypeOK
    <3>2. CASE CloseNotify(t)
      BY <3>1, <3>2
      DEF CloseNotify, Q!CloseNotify, Q!NotifyAll, Q!OnNotFull, Q!OnNotEmpty,
          Q!NotFullStates, Q!TypeOK
    <3>3. CASE SpuriousWake(t)
      BY <3>1, <3>3
      DEF SpuriousWake, Q!SpuriousWake, Q!NotFullStates, Q!TypeOK
    <3> QED
      BY <1>2, <3>2, <3>3
  <2> QED
    BY <1>1, <2>1, <2>2
<1>3. CASE UNCHANGED vars \/ \E level \in Levels : SetLevel(level)
  <2>1. UNCHANGED <<logging, expected, generation, control, request, queue, fault,
                    closed, worker, running, written, pc>>
    BY <1>3
    DEF vars, SetLevel, queueVars, settingVars, sinkVars, workerVars, producerVars,
        controlVars
  <2> QED
    BY <1>1, <2>1
<1> QED
  BY <1>2, <1>3, ProducerKeepsContract, WorkerKeepsContract, ControlKeepsContract
  DEF Next

--------------------------------------------------------------------------------
(* The sequences of AsyncLog                                               *)

(* All but the last element of a sequence that an element was added to     *)
LEMMA FrontOfAppend ==
  ASSUME NEW S, NEW s \in Seq(S), NEW e \in S
  PROVE  /\ Append(s, e) # <<>>
         /\ SubSeq(Append(s, e), 1, Len(Append(s, e)) - 1) = s
<1>1. /\ <<e>> \in Seq(S) /\ Append(s, e) = s \o <<e>>
      /\ Append(s, e) # <<>> /\ Len(Append(s, e)) - 1 = Len(s)
  BY AppendIsConcat, AppendProperties, LenProperties
<1>2. SubSeq(s \o <<e>>, 1, Len(s)) = s
  <2>1. CASE s = <<>>
    BY <2>1, SubSeqEmpty
  <2>2. CASE s # <<>>
    <3>1. 1 \in 1..Len(s) /\ Len(s) \in 1..Len(s)
      BY <2>2, EmptySeq
    <3> QED
      BY <1>1, <3>1, SubSeqOfConcat1, SubSeqFull
  <2> QED
    BY <2>1, <2>2
<1> QED
  BY <1>1, <1>2

(* Where the first part of a sequence ends, and the second begins          *)
LEMMA PartsOfConcat ==
  ASSUME NEW S, NEW b \in Seq(S), NEW q \in Seq(S), NEW n \in 0..Len(b)
  PROVE  /\ SubSeq(b \o q, 1, n) = SubSeq(b, 1, n)
         /\ SubSeq(b \o q, Len(b) + 1, Len(b \o q)) = q
         /\ Len(b) \in 0..Len(b \o q)
<1>1. /\ b \o q \in Seq(S) /\ Len(b \o q) = Len(b) + Len(q)
      /\ Len(b) \in Nat /\ Len(q) \in Nat
  BY ConcatProperties, LenProperties
<1>2. SubSeq(b \o q, 1, n) = SubSeq(b, 1, n)
  <2>1. CASE n = 0
    BY <2>1, SubSeqEmpty
  <2>2. CASE n # 0
    <3>1. 1 \in 1..Len(b) /\ n \in 1..Len(b)
      BY <1>1, <2>2
    <3> QED
      BY <3>1, SubSeqOfConcat1
  <2> QED
    BY <2>1, <2>2
<1>3. SubSeq(b \o q, Len(b) + 1, Len(b \o q)) = q
  <2>1. CASE Len(q) = 0
    <3>1. q = <<>>
      BY <2>1, EmptySeq
    <3>2. SubSeq(b \o q, Len(b) + 1, Len(b \o q)) = <<>>
      BY <1>1, <2>1, SubSeqEmpty
    <3> QED
      BY <3>1, <3>2
  <2>2. CASE Len(q) # 0
    <3>1. /\ Len(b) + 1 \in Len(b) + 1..Len(b) + Len(q)
          /\ Len(b) + Len(q) \in Len(b) + 1..Len(b) + Len(q)
      BY <1>1, <2>2
    <3>2. SubSeq(b \o q, Len(b) + 1, Len(b) + Len(q)) =
            SubSeq(q, Len(b) + 1 - Len(b), Len(b) + Len(q) - Len(b))
      BY <3>1, SubSeqOfConcat2
    <3>3. Len(b) + 1 - Len(b) = 1 /\ Len(b) + Len(q) - Len(b) = Len(q)
      BY <1>1
    <3> QED
      BY <1>1, <3>2, <3>3, SubSeqFull
  <2> QED
    BY <2>1, <2>2
<1> QED
  BY <1>1, <1>2, <1>3

(* Without its oldest element, the queue leaves what is pending without    *)
(* the one in that place.                                                  *)
LEMMA WithoutOldest ==
  ASSUME NEW S, NEW b \in Seq(S), NEW q \in Seq(S), q # <<>>
  PROVE  /\ Len(b) + 1 \in DOMAIN (b \o q)
         /\ b \o Tail(q) = Log_!Without(b \o q, Len(b) + 1)
<1>1. /\ b \o q \in Seq(S) /\ Len(b \o q) = Len(b) + Len(q)
      /\ Len(b) \in Nat /\ Len(q) \in Nat \ {0}
      /\ DOMAIN (b \o q) = 1..Len(b \o q)
  BY ConcatProperties, LenProperties, EmptySeq
<1>2. Log_!Without(b \o q, Len(b) + 1) =
        SubSeq(b \o q, 1, Len(b)) \o SubSeq(b \o q, Len(b) + 2, Len(b \o q))
  <2>1. \A s, i : Log_!Without(s, i) = SubSeq(s, 1, i - 1) \o SubSeq(s, i + 1, Len(s))
    BY DEF Log_!Without
  <2>2. (Len(b) + 1) - 1 = Len(b) /\ (Len(b) + 1) + 1 = Len(b) + 2
    BY <1>1
  <2> QED
    BY <2>1, <2>2, Zenon
<1>3. SubSeq(b \o q, 1, Len(b)) = b
  <2>1. Len(b) \in 0..Len(b)
    BY <1>1
  <2> QED
    BY <2>1, PartsOfConcat, SubSeqFull
<1>4. SubSeq(b \o q, Len(b) + 2, Len(b \o q)) = Tail(q)
  <2>1. CASE Len(q) = 1
    <3>1. Tail(q) \in Seq(S) /\ Len(Tail(q)) = 0
      BY <2>1, HeadTailProperties
    <3>2. Tail(q) = <<>>
      BY <3>1, EmptySeq
    <3>3. SubSeq(b \o q, Len(b) + 2, Len(b \o q)) = <<>>
      BY <1>1, <2>1, SubSeqEmpty
    <3> QED
      BY <3>2, <3>3
  <2>2. CASE Len(q) # 1
    <3>1. /\ Len(b) + 2 \in Len(b) + 1..Len(b) + Len(q)
          /\ Len(b) + Len(q) \in Len(b) + 1..Len(b) + Len(q)
      <4>1. Len(q) > 1
        BY <1>1, <2>2
      <4> QED
        BY <1>1, <4>1
    <3>2. SubSeq(b \o q, Len(b) + 2, Len(b) + Len(q)) =
            SubSeq(q, Len(b) + 2 - Len(b), Len(b) + Len(q) - Len(b))
      BY <3>1, SubSeqOfConcat2
    <3>3. Len(b) + 2 - Len(b) = 2 /\ Len(b) + Len(q) - Len(b) = Len(q)
      BY <1>1
    <3> QED
      BY <1>1, <3>2, <3>3, TailIsSubSeq
  <2> QED
    BY <2>1, <2>2
<1>5. Len(b) + 1 \in DOMAIN (b \o q)
  BY <1>1
<1> QED
  BY <1>2, <1>3, <1>4, <1>5

--------------------------------------------------------------------------------
(* The steps of the asynchronous log that Logger takes                     *)

Pending == InFlight \o queue
Delivered == IF written = <<>> THEN <<>> ELSE written[1]

(* A step of AsyncLog, or none                                             *)
LogStep == [Log_!Next]_(Log_!vars)

(* All it shows is the phase and the two sequences.                        *)
LEMMA Standstill ==
  ASSUME LogState' = LogState, Pending' = Pending, Delivered' = Delivered
  PROVE  LogStep
BY DEF LogStep, Log_!vars, Pending, Delivered

(* What is pending and delivered are records, and once there are sinks the *)
(* first of them has got the delivered ones.                               *)
LEMMA PendingType ==
  ASSUME TypeInv
  PROVE  /\ Pending \in Seq(Q!Entry)
         /\ 1 \in DOMAIN written => Delivered = written[1] /\ written[1] \in Seq(Q!Entry)
<1>1. Pending \in Seq(Q!Entry)
  BY KeptType, ConcatProperties DEF Pending
<1>2. 1 \in DOMAIN written => written # <<>>
  BY EmptySeq
<1> QED
  BY <1>1, <1>2, KeptType DEF Delivered

(* A queue that takes a record belongs to a log that is open: a generation *)
(* is not handed out before init() has begun it.                           *)
LEMMA TakesWhenOpen ==
  ASSUME TypeInv, ContractInv, NEW p \in Producers, Holds(p), ~Q!Rejected(expected[p])
  PROVE  LogState \in {"open", "broken"}
<1>1. ~closed /\ generation = expected[p] /\ expected[p] > 0
  BY DEF Q!Rejected, ContractInv, HolderInv
<1>2. generation # 0
  BY <1>1 DEF TypeInv, TypeOK, Q!TypeOK
<1> QED
  BY <1>1, <1>2 DEF LogState

(* A push() that grows the queue accepts a record.                         *)
LEMMA GrowsAccepts ==
  ASSUME TypeInv, NEW p \in Producers, NEW e \in Q!Entry, Grows(p, e),
         queue' = queue \/ LogState \in {"open", "broken"},
         UNCHANGED <<worker, fault, closed, generation, written, InFlight>>
  PROVE  LogStep
<1>1. LogState' = LogState /\ Delivered' = Delivered
  BY DEF LogState, Delivered
<1>2. CASE queue' = queue
  BY <1>1, <1>2, Standstill DEF Pending
<1>3. InFlight \in Seq(Q!Entry) /\ queue \in Seq(Q!Entry) /\ Pending \in Seq(Q!Entry)
  BY KeptType, PendingType
<1>4. ASSUME LogState \in {"open", "broken"}, NEW older \in Seq(Q!Entry),
             older = Pending \/ \E i \in DOMAIN Pending : older = Log_!Without(Pending, i),
             Pending' = Append(older, e)
      PROVE  LogStep
  <2>1. Pending' # <<>> /\ SubSeq(Pending', 1, Len(Pending') - 1) = older
    <3>1. /\ Append(older, e) # <<>>
          /\ SubSeq(Append(older, e), 1, Len(Append(older, e)) - 1) = older
      BY <1>4, FrontOfAppend
    <3> QED
      BY <1>4, <3>1
  <2>2. Log_!Accept
    <3>1. /\ LogState \in {"open", "broken"} /\ LogState' = LogState
          /\ Pending' # <<>> /\ Delivered' = Delivered
          /\ LET o == SubSeq(Pending', 1, Len(Pending') - 1) IN
               o = Pending \/ \E i \in DOMAIN Pending : o = Log_!Without(Pending, i)
      BY <1>1, <1>4, <2>1
    <3> QED
      BY <3>1, Zenon DEF Log_!Accept, Pending, Delivered
  <2> QED
    BY <2>2 DEF LogStep, Log_!Next
<1>5. CASE LogState \in {"open", "broken"} /\ queue' = Append(queue, e)
  <2>1. Pending' = Append(Pending, e)
    BY <1>3, <1>5, ConcatAppend DEF Pending
  <2> QED
    BY <1>3, <1>4, <1>5, <2>1
<1>6. CASE /\ LogState \in {"open", "broken"}
           /\ queue # <<>> /\ queue' = Append(Tail(queue), e)
  <2>1. Tail(queue) \in Seq(Q!Entry) /\ InFlight \o Tail(queue) \in Seq(Q!Entry)
    BY <1>3, <1>6, ConcatTail
  <2>2. Pending' = Append(InFlight \o Tail(queue), e)
    BY <1>3, <1>6, <2>1, ConcatAppend DEF Pending
  <2>3. /\ Len(InFlight) + 1 \in DOMAIN Pending
        /\ InFlight \o Tail(queue) = Log_!Without(Pending, Len(InFlight) + 1)
    BY <1>3, <1>6, WithoutOldest DEF Pending
  <2> QED
    BY <1>4, <1>6, <2>1, <2>2, <2>3
<1> QED
  BY <1>2, <1>5, <1>6 DEF Grows

(* The steps of a producer accept a record or do not show.                 *)
LEMMA ProducerLogs ==
  ASSUME TypeInv, ContractInv, NEW p \in Producers,
         \/ ProducerStep(p)
         \/ \E level \in Levels : ShouldLog(p, level) \/ Log(p, level)
  PROVE  LogStep
<1>1. /\ Q!TypeOK /\ record \in [Producers -> LogRecord]
      /\ p \in Q!Threads /\ Worker \in Q!Threads \ {p}
      /\ expected \in [Producers -> Nat] /\ value \in [Producers -> LogRecord]
  BY LoggerAssumption DEF TypeInv, TypeOK, Q!Threads, Q!TypeOK
<1>2. UNCHANGED <<worker, written, fault, batch, closed, generation>>
  BY <1>1, ProducerFrame DEF sinkVars, workerVars
<1>3. InFlight' = InFlight
  <2>1. result'[Worker] = result[Worker]
    BY <1>1, StepWakes DEF OthersOnlyWake
  <2> QED
    BY <1>2, <2>1 DEF InFlight
<1>4. ASSUME queue' = queue PROVE LogStep
  <2>1. LogState' = LogState /\ Pending' = Pending /\ Delivered' = Delivered
    BY <1>2, <1>3, <1>4 DEF LogState, Pending, Delivered
  <2> QED
    BY <2>1, Standstill
<1>5. CASE LogStatic(p) \/ \E level \in Levels : ShouldLog(p, level) \/ Log(p, level)
  BY <1>4, <1>5
  DEF LogStatic, ShouldLog, Log, Capture, Q!GetGeneration, Q!members, queueVars
<1>6. ASSUME Holds(p), NEW v \in LogRecord,
             Q!PushLocked(p, v, expected[p]) \/ Q!AwaitRoom(p, v, expected[p])
      PROVE  LogStep
  <2> DEFINE e == [value |-> v, generation |-> expected[p]]
  <2>1. e \in Q!Entry /\ Grows(p, e)
    <3>1. expected[p] \in Nat
      BY <1>1
    <3> QED
      BY <1>1, <1>6, <3>1, PushGrows DEF Q!Entry
  <2>2. queue' = queue \/ LogState \in {"open", "broken"}
    BY <1>6, RejectedRefuses, TakesWhenOpen
  <2> HIDE DEF e
  <2> QED
    BY <1>2, <1>3, <2>1, <2>2, GrowsAccepts
<1>7. CASE PushRecord(p)
  BY <1>1, <1>6, <1>7 DEF PushRecord, Q!Push, Holds
<1>8. CASE ProducerQueueStep(p) /\ Q!PushWake(p)
  BY <1>1, <1>6, <1>8 DEF ProducerQueueStep, Q!PushWake, Holds, Q!NotFullStates
<1>9. CASE ProducerQueueStep(p) /\ Q!PushNotify(p)
  BY <1>4, <1>9 DEF ProducerQueueStep, Q!PushNotify, Q!members
<1> QED
  BY <1>5, <1>7, <1>8, <1>9 DEF ProducerStep, ProducerQueueStep, Q!ProducerStep

(* A batch goes to the first sink, which makes it delivered, or a part of  *)
(* it does, and the rest is lost.                                          *)
LEMMA WriteLogs ==
  ASSUME TypeInv, ContractInv, WriteBatch
  PROVE  LogStep
<1> DEFINE b == batch[Worker]
<1>1. /\ b \in Seq(Q!Entry) /\ queue \in Seq(Q!Entry) /\ InFlight = b /\ InFlight' = <<>>
      /\ worker = "popping" /\ worker' \in {"written", "failing"}
      /\ queue' = queue /\ closed' = closed
  BY KeptType DEF WriteBatch, InFlight, OnlyWorker, queueVars, TypeInv, TypeOK, Q!TypeOK
<1>2. /\ fault = "none" /\ 1 \in DOMAIN written
      /\ Delivered = written[1] /\ written[1] \in Seq(Q!Entry)
  BY <1>1, PendingType DEF ContractInv, PhaseInv, Serving
<1>3. LogState = IF closed THEN "closing" ELSE "open"
  BY <1>1, <1>2 DEF LogState
<1>4. Pending = b \o queue /\ Pending' = queue
  <2>1. <<>> \o queue = queue
    BY <1>1, ConcatEmptySeq
  <2> QED
    BY <1>1, <2>1 DEF Pending
<1>5. Len(b) \in Nat /\ Len(b) \in 0..Len(Pending)
  <2>1. Len(b) \in 0..Len(b)
    BY <1>1
  <2> QED
    BY <1>1, <1>4, <2>1, PartsOfConcat
<1> HIDE DEF b
<1>6. ASSUME NEW n \in 0..Len(b), 1 \in DOMAIN written',
             written'[1] = written[1] \o SubSeq(b, 1, n)
      PROVE  /\ n <= Len(Pending) /\ Delivered' = Delivered \o SubSeq(Pending, 1, n)
             /\ Pending' = SubSeq(Pending, Len(b) + 1, Len(Pending))
  <2>1. /\ SubSeq(b \o queue, 1, n) = SubSeq(b, 1, n)
        /\ SubSeq(b \o queue, Len(b) + 1, Len(b \o queue)) = queue
    BY <1>1, PartsOfConcat
  <2>2. Delivered' = written'[1]
    <3>1. written' # <<>>
      BY <1>6, EmptySeq
    <3> QED
      BY <3>1 DEF Delivered
  <2>3. n <= Len(Pending)
    BY <1>5
  <2> QED
    BY <1>2, <1>4, <1>6, <2>1, <2>2, <2>3
<1>7. CASE /\ written' = [i \in DOMAIN written |-> written[i] \o b]
           /\ worker' = "written" /\ fault' = fault
  <2>1. LogState' = LogState
    BY <1>1, <1>7 DEF LogState
  <2>2. SubSeq(b, 1, Len(b)) = b /\ Len(b) \in 0..Len(b)
    BY <1>1, <1>5, SubSeqFull
  <2>3. 1 \in DOMAIN written' /\ written'[1] = written[1] \o b
    BY <1>2, <1>7
  <2>4. /\ Len(b) <= Len(Pending) /\ Delivered' = Delivered \o SubSeq(Pending, 1, Len(b))
        /\ Pending' = SubSeq(Pending, Len(b) + 1, Len(Pending))
    BY <1>6, <2>2, <2>3
  <2>5. CASE b = <<>>
    <3>1. Pending' = Pending
      BY <1>1, <1>4, <2>5, ConcatEmptySeq
    <3>2. Delivered' = Delivered
      <4>1. written[1] \o <<>> = written[1]
        BY <1>2, ConcatEmptySeq
      <4> QED
        BY <1>2, <2>3, <2>5, <4>1, EmptySeq DEF Delivered
    <3> QED
      BY <2>1, <3>1, <3>2, Standstill
  <2>6. CASE b # <<>>
    <3>1. Len(b) \in 1..Len(Pending)
      BY <1>1, <1>5, <2>6, EmptySeq
    <3>2. Log_!Move(Len(b))
      BY <2>4 DEF Log_!Move, Pending, Delivered
    <3>3. LogState \in {"open", "closing"}
      BY <1>3
    <3>4. Log_!Deliver
      BY <2>1, <2>4, <3>1, <3>2, <3>3 DEF Log_!Deliver, Pending
    <3> QED
      BY <3>4 DEF LogStep, Log_!Next
  <2> QED
    BY <2>5, <2>6
<1>8. ASSUME NEW bad \in DOMAIN written, NEW k \in 0..Len(b),
             written' = WrittenUntil(bad, k), fault' = "write", worker' = "failing"
      PROVE  LogStep
  <2>1. \E n \in 0..Len(b) : written'[1] = written[1] \o SubSeq(b, 1, n)
    <3>1. written'[1] = written[1] \o (IF 1 < bad THEN b
                                       ELSE IF 1 = bad THEN SubSeq(b, 1, k) ELSE <<>>)
      BY <1>2, <1>8 DEF WrittenUntil, b
    <3>2. SubSeq(b, 1, Len(b)) = b /\ SubSeq(b, 1, 0) = <<>>
      BY <1>1, SubSeqFull, SubSeqEmpty
    <3>3. 0 \in 0..Len(b) /\ Len(b) \in 0..Len(b)
      BY <1>5
    <3> QED
      BY <1>8, <3>1, <3>2, <3>3
  <2>2. 1 \in DOMAIN written'
    BY <1>2, <1>8 DEF WrittenUntil
  <2>3. PICK n \in 0..Len(b) :
          /\ Delivered' = Delivered \o SubSeq(Pending, 1, n) /\ n <= Len(Pending)
          /\ Pending' = SubSeq(Pending, Len(b) + 1, Len(Pending))
    BY <1>6, <2>1, <2>2
  <2>4. LogState \in {"open", "closing"} /\ LogState' = "broken"
    BY <1>3, <1>8 DEF LogState
  <2>5. Log_!Move(n)
    BY <2>3 DEF Log_!Move, Pending, Delivered
  <2>6. Log_!Break
    BY <1>5, <2>3, <2>4, <2>5 DEF Log_!Break, Pending
  <2> QED
    BY <2>6 DEF LogStep, Log_!Next
<1> QED
  BY <1>7, <1>8 DEF WriteBatch, b

(* The worker gone wrong otherwise breaks the log and loses nothing.       *)
LEMMA FaultLogs ==
  ASSUME TypeInv, ContractInv, {worker, worker'} \cap {"none", "exited"} = {},
         fault' # "none", UNCHANGED <<closed, written>>, Pending' = Pending
  PROVE  LogStep
<1>1. /\ Delivered' = Delivered /\ LogState' = "broken"
      /\ LogState = IF fault # "none" THEN "broken" ELSE IF closed THEN "closing" ELSE "open"
  BY DEF Delivered, LogState
<1>2. CASE fault # "none"
  BY <1>1, <1>2, Standstill
<1>3. CASE fault = "none"
  <2>1. LogState \in {"open", "closing"}
    BY <1>1, <1>3
  <2>2. Delivered \in Seq(Q!Entry) /\ Pending \in Seq(Q!Entry)
    <3>1. 1 \in DOMAIN written
      BY DEF ContractInv, PhaseInv
    <3> QED
      BY <3>1, PendingType
  <2>3. 0 \in 0..Len(Pending) /\ 0 \in 0..0 /\ 0 <= Len(Pending)
    BY <2>2
  <2>4. /\ Delivered' = Delivered \o SubSeq(Pending, 1, 0)
        /\ Pending' = SubSeq(Pending, 0 + 1, Len(Pending))
    BY <1>1, <2>2, SubSeqEmpty, SubSeqFull, ConcatEmptySeq
  <2>5. Log_!Move(0)
    BY <2>3, <2>4 DEF Log_!Move, Pending, Delivered
  <2>6. Log_!Break
    BY <1>1, <2>1, <2>3, <2>4, <2>5 DEF Log_!Break, Pending
  <2> QED
    BY <2>6 DEF LogStep, Log_!Next
<1> QED
  BY <1>2, <1>3

(* The other steps of the worker show only at its exit: stop() is done if  *)
(* nothing went wrong, and the log is given up if something did.           *)
LEMMA WorkerLogs ==
  ASSUME TypeInv, PlaceInv, AsleepInv, DrainInv, ContractInv,
         WorkerStep \/ WorkerTimeout \/ Tick
  PROVE  LogStep
<1>1. Q!TypeOK
  BY DEF TypeInv, TypeOK
<1>2. ASSUME worker' = worker \/ {worker, worker'} \cap {"none", "exited"} = {},
             UNCHANGED <<fault, closed, written, generation>>, Pending' = Pending
      PROVE  LogStep
  <2>1. LogState' = LogState /\ Delivered' = Delivered
    BY <1>2 DEF LogState, Delivered
  <2> QED
    BY <1>2, <2>1, Standstill
<1>3. generation' = generation
  BY <1>1, WorkerFrame
<1>4. CASE WriteBatch
  BY <1>4, WriteLogs
<1>5. ASSUME NEW m, NEW n \in Nat \ {0}, worker' = "popping", InFlight = <<>>,
             worker \notin {"none", "exited"}, UNCHANGED <<written, fault>>,
             Q!TakeLocked(Worker, m, n) \/ Q!ParkOnNotEmpty(Worker)
      PROVE  LogStep
  <2>1. closed' = closed
    BY <1>5 DEF Q!TakeLocked, Q!ParkOnNotEmpty, Q!members
  <2>2. Pending = queue
    <3>1. <<>> \o queue = queue
      BY KeptType, ConcatEmptySeq
    <3> QED
      BY <1>5, <3>1 DEF Pending
  <2>3. CASE Q!TakeLocked(Worker, m, n)
    <3>1. /\ queue' \in Seq(Q!Entry) /\ batch'[Worker] \o queue' = queue
          /\ result'[Worker] = "noValues" => queue' = queue
          /\ result'[Worker] \in {"values", "noValues"}
      BY <1>1, <2>3, TakesFront
    <3>2. <<>> \o queue = queue
      BY KeptType, ConcatEmptySeq
    <3>3. Pending' = queue
      BY <1>5, <3>1, <3>2 DEF Pending, InFlight
    <3> QED
      BY <1>2, <1>3, <1>5, <2>1, <2>2, <3>3
  <2>4. CASE Q!ParkOnNotEmpty(Worker)
    <3>1. result'[Worker] = "none" /\ queue' = queue
      BY <1>1, <2>4 DEF Q!ParkOnNotEmpty, Q!Finish, Q!members, Q!TypeOK, Q!Threads
    <3>2. Pending' = Pending
      BY <1>5, <3>1 DEF Pending, InFlight
    <3> QED
      BY <1>2, <1>3, <1>5, <2>1, <3>2
  <2> QED
    BY <1>5, <2>3, <2>4
<1>6. CASE WorkerPop
  <2>1. /\ Q!Pop(Worker, IF Periodic THEN "popBatchFor" ELSE "popBatch",
                 config.writeBatchSize)
        /\ InFlight = <<>> /\ worker = "loop" /\ worker' = "popping"
        /\ UNCHANGED <<written, fault>>
    BY <1>6 DEF WorkerPop, InFlight, sinkVars
  <2>2. config.writeBatchSize \in Nat \ {0}
    BY <2>1, ConfigType DEF Q!Pop, TypeInv, TypeOK
  <2> QED
    BY <1>5, <2>1, <2>2 DEF Q!Pop
<1>7. CASE WorkerQueueStep
  <2>1. UNCHANGED <<written, fault, worker>> /\ Q!ConsumerStep(Worker)
    BY <1>7 DEF WorkerQueueStep, OnlyQueue, sinkVars, workerVars
  <2>2. maxCount[Worker] \in Nat \ {0}
    BY <1>1 DEF Q!TypeOK
  <2>3. ASSUME pc[Worker] \in Q!NotEmptyStates
        PROVE  InFlight = <<>> /\ worker = "popping" /\ worker' = "popping"
    BY <2>1, <2>3 DEF AsleepInv, InFlight, PlaceInv, WorkerPlaces
  <2>4. CASE Q!PopWake(Worker)
    BY <1>5, <2>1, <2>2, <2>3, <2>4 DEF Q!PopWake, Q!NotEmptyStates
  <2>5. ~Q!PopTimedOut(Worker)
    BY DEF Q!PopTimedOut, DrainInv, Q!NotEmptyStates
  <2>6. CASE Q!PopNotify(Worker)
    <3>1. UNCHANGED <<queue, closed, result, batch>>
      BY <2>6 DEF Q!PopNotify, Q!members
    <3>2. Pending' = Pending
      BY <2>1, <3>1 DEF Pending, InFlight
    <3> QED
      BY <1>2, <1>3, <2>1, <3>1, <3>2
  <2> QED
    BY <2>1, <2>4, <2>5, <2>6 DEF Q!ConsumerStep
<1>8. CASE WorkerTimeout \/ Tick
  <2>1. UNCHANGED <<queue, closed, result, batch, worker, written, fault>>
    BY <1>8
    DEF WorkerTimeout, Tick, OnlyQueue, queueVars, sinkVars, workerVars, Q!PopTimeout,
        Q!members
  <2>2. Pending' = Pending
    BY <2>1 DEF Pending, InFlight
  <2> QED
    BY <1>2, <1>3, <2>1, <2>2
<1>9. ASSUME worker' = "exited", UNCHANGED <<queue, fault, written>>, closed',
             InFlight = <<>>, closed, worker \notin {"none", "exited"},
             fault = "none" => queue = <<>>
      PROVE  LogStep
  <2>1. InFlight' = <<>>
    BY <1>9 DEF InFlight
  <2>2. Pending' = Pending /\ Delivered' = Delivered /\ LogState' = "off"
    BY <1>9, <2>1 DEF Pending, Delivered, LogState
  <2>3. LogState = IF fault # "none" THEN "broken" ELSE "closing"
    BY <1>9 DEF LogState
  <2>4. CASE fault = "none"
    <3>1. <<>> \o <<>> = <<>>
      BY EmptySeq, ConcatEmptySeq
    <3>2. Pending = <<>>
      BY <1>9, <2>4, <3>1 DEF Pending
    <3>3. Log_!Finish
      BY <2>2, <2>3, <2>4, <3>2 DEF Log_!Finish, Pending, Delivered
    <3> QED
      BY <3>3 DEF LogStep, Log_!Next
  <2>5. CASE fault # "none"
    <3>1. Log_!Abandon
      BY <2>2, <2>3, <2>5 DEF Log_!Abandon, Pending, Delivered
    <3> QED
      BY <3>1 DEF LogStep, Log_!Next
  <2> QED
    BY <2>4, <2>5
<1>10. CASE WorkerCloses
  <2>1. /\ worker \in {"closing", "closingLast"} /\ closed'
        /\ worker' = AfterClose /\ UNCHANGED <<queue, fault, written>>
    BY <1>10 DEF WorkerCloses, Q!Close, sinkVars
  <2>2. fault # "none" /\ InFlight = <<>>
    BY <2>1 DEF DrainInv, InFlight
  <2>3. LogState = "broken"
    BY <2>1, <2>2 DEF LogState
  <2>4. Pending' = Pending /\ Delivered' = Delivered
    BY <2>1, <2>2 DEF Pending, Delivered, InFlight, AfterClose
  <2>5. CASE worker = "closing"
    <3>1. LogState' = LogState
      BY <2>1, <2>2, <2>3, <2>5 DEF LogState, AfterClose
    <3> QED
      BY <2>4, <3>1, Standstill
  <2>6. CASE worker = "closingLast"
    <3>1. LogState' = "off"
      BY <2>1, <2>6 DEF LogState, AfterClose
    <3>2. Log_!Abandon
      BY <2>3, <2>4, <3>1 DEF Log_!Abandon, Pending, Delivered
    <3> QED
      BY <3>2 DEF LogStep, Log_!Next
  <2> QED
    BY <2>1, <2>5, <2>6
<1>11. ASSUME UNCHANGED <<queueVars, written>>, worker \notin {"none", "exited"},
              worker = "popping" => result[Worker] = "noValues", worker' # "popping"
       PROVE  UNCHANGED <<queue, closed, written>> /\ Pending' = Pending /\ InFlight = <<>>
  BY <1>11 DEF Pending, InFlight, queueVars
<1>12. CASE WorkerStart
  <2>1. UNCHANGED <<queue, closed, written>> /\ Pending' = Pending
    BY <1>11, <1>12 DEF WorkerStart, GoOn, OnlyWorker
  <2>2. \/ worker' = "loop" /\ fault' = fault
        \/ worker' = "failing" /\ fault' = "write"
    BY <1>12 DEF WorkerStart, GoOn
  <2> QED
    BY <1>2, <1>3, <1>12, <2>1, <2>2, FaultLogs DEF WorkerStart
<1>13. CASE FlushAfterBatch \/ NoBatch
  <2>1. UNCHANGED <<queueVars, written>>
    BY <1>13 DEF FlushAfterBatch, NoBatch, GoOn, OnlyWorker, FlushSinks
  <2>2. \/ worker' \in {"loop", "check"} /\ fault' = fault
        \/ worker' = "failing" /\ fault' = "flush"
    BY <1>13 DEF FlushAfterBatch, NoBatch, GoOn, FlushSinks, NextRound
  <2>3. /\ worker \in {"written", "popping"}
        /\ worker = "popping" => result[Worker] = "noValues"
    BY <1>13 DEF FlushAfterBatch, NoBatch
  <2>4. UNCHANGED <<queue, closed, written>> /\ Pending' = Pending
    BY <1>11, <2>1, <2>2, <2>3
  <2> QED
    BY <1>2, <1>3, <2>2, <2>3, <2>4, FaultLogs
<1>14. CASE CheckClosed \/ WorkerFails
  <2>1. UNCHANGED <<queueVars, written, fault>>
    BY <1>14 DEF CheckClosed, WorkerFails, GoOn, OnlyWorker
  <2>2. /\ worker \in {"check", "failing", "failingLast"}
        /\ worker' \in {"finalFlush", "loop", "closing", "closingLast"}
    BY <1>14 DEF CheckClosed, WorkerFails, GoOn, AfterNoBatch, AfterFault
  <2>3. UNCHANGED <<queue, closed, written>> /\ Pending' = Pending
    BY <1>11, <2>1, <2>2
  <2> QED
    BY <1>2, <1>3, <2>1, <2>2, <2>3
<1>15. CASE FinalFlush
  <2>1. /\ worker = "finalFlush" /\ UNCHANGED <<queueVars, written>>
        /\ \/ worker' = "exited" /\ fault' = fault
           \/ worker' = "failingLast" /\ fault' = "flush"
    BY <1>15 DEF FinalFlush, FlushSinks, OnlyWorker
  <2>2. UNCHANGED <<queue, closed, written>> /\ Pending' = Pending /\ InFlight = <<>>
    BY <1>11, <2>1
  <2>3. closed /\ (fault = "none" => queue = <<>>)
    BY <2>1 DEF ContractInv, PhaseInv, DrainInv, AtEnd
  <2>4. CASE worker' = "exited" /\ fault' = fault
    BY <1>9, <2>1, <2>2, <2>3, <2>4
  <2>5. CASE worker' = "failingLast" /\ fault' = "flush"
    BY <2>1, <2>2, <2>5, FaultLogs
  <2> QED
    BY <2>1, <2>4, <2>5
<1> QED
  BY <1>4, <1>6, <1>7, <1>8, <1>10, <1>12, <1>13, <1>14, <1>15 DEF WorkerStep

(* The steps of init() and stop(): queue_.reset() opens the log, close()   *)
(* begins to close it, or closes it where there is no worker yet.          *)
LEMMA ControlLogs ==
  ASSUME TypeInv, PlaceInv, ContractInv, NEW k \in Controllers,
         \/ Stop(k) \/ ControlStep(k)
         \/ \E cf \in Configs : InitCall(k, cf)
  PROVE  LogStep
<1>1. generation \in Nat /\ queue \in Seq(Q!Entry)
  BY DEF TypeInv, TypeOK, Q!TypeOK
<1>2. ASSUME UNCHANGED <<queue, written>>, LogState' = LogState, InFlight' = InFlight
      PROVE  LogStep
  <2>1. Pending' = Pending /\ Delivered' = Delivered
    BY <1>2 DEF Pending, Delivered
  <2> QED
    BY <1>2, <2>1, Standstill
<1>3. ASSUME control[k] # "idle", control[k] \notin Beginning PROVE ~Begins
  <2>1. \A j \in Controllers \ {k} : control[j] = "idle"
    BY <1>3 DEF TypeInv, TypeOK
  <2> QED
    BY <1>3, <2>1 DEF Begins, Beginning
<1>4. CASE \/ Stop(k) \/ InitConfigure(k) \/ InitAborted(k)
           \/ \E cf \in Configs : InitCall(k, cf)
  <2>1. UNCHANGED <<queue, closed, generation, result, batch, worker, fault, written>>
    BY <1>4
    DEF Stop, InitConfigure, InitAborted, InitCall, queueVars, sinkVars, workerVars
  <2>2. LogState' = LogState /\ InFlight' = InFlight
    BY <2>1 DEF LogState, InFlight
  <2> QED
    BY <1>2, <2>1, <2>2
<1>5. CASE InitJoin(k) \/ StopJoin(k)
  <2>1. /\ UNCHANGED <<queue, closed, generation, fault, written>>
        /\ worker' = "none" /\ worker \in {"none", "exited"}
    BY <1>5
    DEF InitJoin, StopJoin, JoinWorker, Joinable, Exited, queueVars
  <2>2. LogState' = LogState /\ InFlight' = InFlight
    BY <2>1 DEF LogState, InFlight
  <2> QED
    BY <1>2, <2>1, <2>2
<1>6. CASE InitReset(k)
  <2>1. /\ control[k] = "initReset" /\ queue' = <<>> /\ ~closed' /\ fault' = "none"
        /\ generation' = generation + 1 /\ worker' = worker
        /\ written' = [i \in 1..request[k].sinks |-> <<>>]
    BY <1>6 DEF InitReset, Q!Reset, workerVars
  <2>2. worker = "none" /\ ~Begins
    BY <1>3, <2>1 DEF PlaceInv, ControlPlaces, Beginning
  <2>3. LogState = "off"
    BY <2>2 DEF LogState, ContractInv, PhaseInv
  <2>4. generation' # 0
    BY <1>1, <2>1
  <2>5. LogState' = "open"
    BY <2>1, <2>4 DEF LogState
  <2>6. Pending' = <<>>
    <3>1. InFlight' = <<>>
      BY <2>1, <2>2 DEF InFlight
    <3>2. <<>> \o <<>> = <<>>
      BY EmptySeq, ConcatEmptySeq
    <3> QED
      BY <2>1, <3>1, <3>2 DEF Pending
  <2>7. Delivered' = <<>>
    <3>1. request[k].sinks > 0 /\ request[k].sinks \in Nat
      <4>1. request[k] \in Configs /\ Valid(request[k])
        BY <2>1 DEF TypeInv, TypeOK, ContractInv, BeginInv
      <4> QED
        BY <4>1, ConfigType DEF Valid
    <3>2. 1 \in DOMAIN written'
      BY <2>1, <3>1
    <3> QED
      BY <2>1, <3>2 DEF Delivered
  <2>8. Log_!Open
    BY <2>3, <2>5, <2>6, <2>7 DEF Log_!Open, Pending, Delivered
  <2> QED
    BY <2>8 DEF LogStep, Log_!Next
<1>7. CASE InitSpawn(k)
  <2>1. /\ UNCHANGED <<queue, closed, generation, fault, written>>
        /\ control[k] = "initSpawn" /\ (worker' = "starting" \/ worker' = worker)
    BY <1>7 DEF InitSpawn, queueVars, sinkVars, workerVars
  <2>2. worker = "none" /\ ~closed /\ generation > 0
    BY <2>1 DEF PlaceInv, ControlPlaces, ContractInv, BeginInv, Begins, Beginning
  <2>3. generation # 0
    BY <1>1, <2>2
  <2>4. LogState' = LogState
    BY <2>1, <2>2, <2>3 DEF LogState
  <2>5. InFlight' = InFlight
    BY <2>1, <2>2 DEF InFlight
  <2> QED
    BY <1>2, <2>1, <2>4, <2>5
<1>8. ASSUME UNCHANGED <<queue, generation, result, batch, worker, fault, written>>, closed'
      PROVE  /\ Pending' = Pending /\ Delivered' = Delivered
             /\ closed \/ LogState = "off" => LogStep
  <2>1. Pending' = Pending /\ Delivered' = Delivered
    BY <1>8 DEF Pending, Delivered, InFlight
  <2>2. closed \/ LogState = "off" => LogState' = LogState
    BY <1>8 DEF LogState
  <2> QED
    BY <2>1, <2>2, Standstill
<1>9. CASE InitAbort(k)
  <2>1. /\ UNCHANGED <<queue, generation, result, batch, worker, fault, written>>
        /\ closed' /\ control[k] = "initAbort"
    BY <1>9 DEF InitAbort, Q!Close, sinkVars, workerVars
  <2>2. worker = "none" /\ generation > 0 /\ queue = <<>> /\ fault = "none"
    BY <2>1 DEF PlaceInv, ControlPlaces, ContractInv, BeginInv, Begins, Beginning
  <2>3. CASE ~closed
    <3>1. generation # 0
      BY <1>1, <2>2
    <3>2. LogState = "open" /\ LogState' = "off"
      BY <2>1, <2>2, <2>3, <3>1 DEF LogState
    <3>3. Pending = <<>>
      <4>1. <<>> \o <<>> = <<>>
        BY EmptySeq, ConcatEmptySeq
      <4> QED
        BY <2>2, <4>1 DEF Pending, InFlight
    <3>4. Pending' = Pending /\ Delivered' = Delivered
      BY <1>8, <2>1
    <3>5. Log_!Finish
      BY <3>2, <3>3, <3>4 DEF Log_!Finish, Pending, Delivered
    <3> QED
      BY <3>5 DEF LogStep, Log_!Next
  <2> QED
    BY <1>8, <2>1, <2>3
<1>10. CASE StopClose(k)
  <2>1. /\ UNCHANGED <<queue, generation, result, batch, worker, fault, written>>
        /\ closed' /\ control[k] = "stopClose"
    BY <1>10 DEF StopClose, Q!Close, sinkVars, workerVars
  <2>2. Pending' = Pending /\ Delivered' = Delivered
    BY <1>8, <2>1
  <2>3. CASE generation = 0
    <3>1. LogState = "off"
      BY <2>3 DEF LogState, ContractInv, PhaseInv
    <3> QED
      BY <1>8, <2>1, <3>1
  <2>4. CASE ~closed /\ generation # 0
    <3>1. worker \notin {"none", "exited"}
      BY <1>3, <2>1, <2>4 DEF ContractInv, PhaseInv, Beginning
    <3>2. CASE fault = "none"
      <4>1. LogState = "open" /\ LogState' = "closing"
        BY <2>1, <2>4, <3>1, <3>2 DEF LogState
      <4>2. Log_!Close
        BY <2>2, <4>1 DEF Log_!Close, Pending, Delivered
      <4> QED
        BY <4>2 DEF LogStep, Log_!Next
    <3>3. CASE fault # "none"
      <4>1. LogState' = LogState
        BY <2>1, <3>1, <3>3 DEF LogState
      <4> QED
        BY <2>2, <4>1, Standstill
    <3> QED
      BY <3>2, <3>3
  <2> QED
    BY <1>8, <2>1, <2>3, <2>4
<1> QED
  BY <1>4, <1>5, <1>6, <1>7, <1>9, <1>10 DEF ControlStep

(* Every step of the program is a step of AsyncLog, or does not show       *)
(* there.                                                                  *)
LEMMA NextLogs ==
  TypeInv /\ PlaceInv /\ AsleepInv /\ DrainInv /\ ContractInv /\ [Next]_vars => LogStep
<1> SUFFICES ASSUME TypeInv, PlaceInv, AsleepInv, DrainInv, ContractInv, [Next]_vars
             PROVE  LogStep
  OBVIOUS
<1>1. CASE \/ UNCHANGED vars
           \/ \E level \in Levels : SetLevel(level)
           \/ \E t \in Q!Threads : CloseNotify(t) \/ SpuriousWake(t)
  <2>1. UNCHANGED <<queue, closed, generation, result, batch, worker, fault, written>>
    BY <1>1
    DEF vars, SetLevel, CloseNotify, SpuriousWake, Q!CloseNotify, Q!SpuriousWake,
        Q!members, OnlyQueue, queueVars, sinkVars, workerVars
  <2>2. LogState' = LogState /\ Pending' = Pending /\ Delivered' = Delivered
    BY <2>1 DEF LogState, Pending, Delivered, InFlight
  <2> QED
    BY <2>2, Standstill
<1> QED
  BY <1>1, ProducerLogs, WorkerLogs, ControlLogs DEF Next

(* Initially the log is off, and nothing is pending or delivered.          *)
LEMMA InitLogs == Init => Log_!Init
<1> SUFFICES ASSUME Init PROVE Log_!Init
  OBVIOUS
<1>1. /\ queue = <<>> /\ generation = 0 /\ worker = "none" /\ written = <<>>
  BY DEF Init, Q!Init
<1>2. LogState = "off" /\ InFlight = <<>>
  BY <1>1 DEF LogState, InFlight
<1>3. <<>> \o <<>> = <<>>
  BY EmptySeq, ConcatEmptySeq
<1> QED
  BY <1>1, <1>2, <1>3 DEF Log_!Init

(* Logger without the timer is the asynchronous log of AsyncLog, as far as *)
(* safety goes: what is accepted is delivered in order, none of it twice,  *)
(* none of it lost but by DropOldest or a fault, and log and sinks agree   *)
(* that nothing is left when stop() is done.                               *)
THEOREM LogCorrect ==
  ASSUME Untimed
  PROVE  Spec => Log_!Init /\ [][Log_!Next]_(Log_!vars)
<1>1. Init => DrainInv
  BY DEF Init, Q!Init, DrainInv, AtEnd, Q!NotEmptyStates, Q!Threads
<1>2. TypeInv /\ PlaceInv /\ DrainInv /\ [Next]_vars => DrainInv'
  BY NextDrained
<1>3. TypeInv /\ PlaceInv /\ AsleepInv /\ [Next]_vars => AsleepInv'
  BY NextFlows
<1>4. Init => AsleepInv
  BY InitDelivery
<1>5. TypeInv /\ PlaceInv /\ AsleepInv /\ DrainInv /\ ContractInv /\ [Next]_vars =>
        [Log_!Next]_(Log_!vars)
  BY NextLogs DEF LogStep
<1> QED
  BY <1>1, <1>2, <1>3, <1>4, <1>5, InitTypes, InitPlaces, InitContract, InitLogs,
     NextTypes, NextPlaces, NextContract, PTL DEF Spec

--------------------------------------------------------------------------------
(* Logger as the user of its sinks                                         *)

(* What the i-th sink shows: how it is, what it was given, and what of     *)
(* that it has flushed                                                     *)
SinkPhase(i) ==
  IF ~sinksOpen \/ i \notin DOMAIN written THEN "none"
  ELSE IF fault = "none" THEN "open" ELSE "failed"
Given(i) == IF i \in DOMAIN written THEN Len(written[i]) ELSE 0
Safe(i) == IF i \in DOMAIN written THEN flushed[i] ELSE 0
Shown(i) == IF i \in DOMAIN written THEN [j \in 1..flushed[i] |-> j] ELSE <<>>

SinkStep(i) == [Sink(i)!Next]_(Sink(i)!vars)

(* init() replaces the sinks it has closed.                                *)
ClosedInv ==
  \A k \in Controllers : control[k] \in {"initReset", "initConfigure"} => ~sinksOpen

(* The first n numbers are a sequence of that length.                      *)
LEMMA CountType ==
  ASSUME NEW n \in Nat
  PROVE  [j \in 1..n |-> j] \in Seq(Nat) /\ Len([j \in 1..n |-> j]) = n
OBVIOUS

(* The first 0 numbers are the empty sequence.                             *)
LEMMA CountNone == [j \in 1..0 |-> j] = <<>>
<1> DEFINE u == [j \in 1..0 |-> j]
<1>1. u \in Seq(Nat) /\ Len(u) = 0
  BY CountType
<1> HIDE DEF u
<1> QED
  BY <1>1, EmptySeq DEF u

(* A sink has flushed no more than it was given, and shows just that.      *)
LEMMA SinkShows ==
  ASSUME TypeInv, NEW i
  PROVE  /\ Given(i) \in Nat /\ Safe(i) \in 0..Given(i)
         /\ Safe(i) <= Given(i) /\ Len(Shown(i)) <= Given(i)
         /\ Shown(i) = [j \in 1..Safe(i) |-> j] /\ Len(Shown(i)) = Safe(i)
<1>1. \A j \in DOMAIN written :
        written[j] \in Seq(Q!Entry) /\ flushed[j] \in 0..Len(written[j])
  BY DEF TypeInv, TypeOK
<1>2. Given(i) \in Nat /\ Safe(i) \in 0..Given(i)
  BY <1>1 DEF Given, Safe
<1>3. Shown(i) = [j \in 1..Safe(i) |-> j]
  BY CountNone DEF Shown, Safe
<1>4. Len(Shown(i)) = Safe(i)
  BY <1>2, <1>3, CountType
<1>5. Safe(i) <= Given(i)
  BY <1>2
<1> QED
  BY <1>2, <1>3, <1>4, <1>5

(* Where the sink shows the same, nothing has happened to it.              *)
LEMMA SinkRests ==
  ASSUME NEW i, SinkPhase(i)' = SinkPhase(i), Given(i)' = Given(i), Safe(i)' = Safe(i),
         Shown(i)' = Shown(i)
  PROVE  SinkStep(i)
BY DEF SinkStep, Sink!vars, SinkPhase, Given, Safe, Shown

(* A step that leaves the sinks alone is none of theirs.                   *)
LEMMA SinksRest ==
  ASSUME NEW i, UNCHANGED sinkVars
  PROVE  SinkStep(i)
<1>1. /\ SinkPhase(i)' = SinkPhase(i) /\ Given(i)' = Given(i) /\ Safe(i)' = Safe(i)
      /\ Shown(i)' = Shown(i)
  BY DEF sinkVars, SinkPhase, Given, Safe, Shown
<1> QED
  BY <1>1, SinkRests

(* A sink may stop where it is, by a fault of its own or of another one or *)
(* by close(), with nothing more flushed.                                  *)
LEMMA SinkStops ==
  ASSUME TypeInv, NEW i, SinkPhase(i)' \in {"failed", "none"},
         SinkPhase(i) = "none" => SinkPhase(i)' = "none",
         UNCHANGED <<Given(i), Safe(i), Shown(i)>>
  PROVE  SinkStep(i)
<1>1. \E k \in 0..Given(i) :
        k >= Len(Shown(i)) /\ k <= Given(i) /\ Shown(i)' = [j \in 1..k |-> j]
  <2>1. /\ Safe(i) \in 0..Given(i) /\ Len(Shown(i)) = Safe(i) /\ Safe(i) <= Given(i)
        /\ Shown(i)' = [j \in 1..Safe(i) |-> j]
    BY SinkShows
  <2>2. Safe(i) >= Safe(i)
    BY <2>1
  <2> QED
    BY <2>1, <2>2
<1>2. \E k \in 0..Given(i) : Sink(i)!Extends(k)
  BY <1>1 DEF Sink!Extends, Sink!UpTo, Given, Shown
<1>3. CASE SinkPhase(i) = "none"
  BY <1>3, SinkRests
<1>4. CASE SinkPhase(i) # "none" /\ SinkPhase(i)' = "failed"
  <2>1. Sink(i)!Fail
    BY <1>2, <1>4 DEF Sink!Fail, SinkPhase, Given, Safe, Shown
  <2> QED
    BY <2>1 DEF SinkStep, Sink!Next
<1>5. CASE SinkPhase(i) # "none" /\ SinkPhase(i)' = "none"
  <2>1. Sink(i)!Close
    BY <1>2, <1>5 DEF Sink!Close, SinkPhase, Given, Safe, Shown
  <2> QED
    BY <2>1 DEF SinkStep, Sink!Next
<1> QED
  BY <1>3, <1>4, <1>5

(* A sink that has flushed all it was given was flushed, whether or not a  *)
(* later one throws.                                                       *)
LEMMA SinkFlushes ==
  ASSUME TypeInv, NEW i, i \in DOMAIN written, sinksOpen,
         UNCHANGED <<sinksOpen, written>>,
         i \in DOMAIN flushed', flushed'[i] = Len(written[i]),
         fault' = fault \/ fault' # "none"
  PROVE  SinkStep(i)
<1>1. /\ SinkPhase(i) # "none" /\ SinkPhase(i)' \in {SinkPhase(i), "failed"}
      /\ Given(i)' = Given(i) /\ Safe(i)' = Given(i)
      /\ Shown(i)' = [j \in 1..Given(i) |-> j]
  BY DEF SinkPhase, Given, Safe, Shown
<1>2. Given(i) \in Nat /\ Given(i) >= Len(Shown(i)) /\ Given(i) <= Given(i)
  <2>1. Given(i) \in Nat /\ Safe(i) \in 0..Given(i) /\ Len(Shown(i)) = Safe(i)
    BY SinkShows
  <2> QED
    BY <2>1
<1>3. Sink(i)!Extends(Given(i))
  BY <1>1, <1>2 DEF Sink!Extends, Sink!UpTo, Given, Shown
<1>4. Sink(i)!Flush
  BY <1>1, <1>3 DEF Sink!Flush, SinkPhase, Given, Safe, Shown
<1> QED
  BY <1>4 DEF SinkStep, Sink!Next

(* A sink that init() has not made shows nothing.                          *)
LEMMA NoSink ==
  ASSUME NEW i, i \notin DOMAIN written, i \notin DOMAIN written'
  PROVE  SinkStep(i)
BY SinkRests DEF SinkPhase, Given, Safe, Shown

(* flushSinks(): each sink is flushed, or stops with those after the one   *)
(* that throws.                                                            *)
LEMMA FlushSinksStep ==
  ASSUME TypeInv, NEW i, NEW a, NEW b, FlushSinks(a, b), sinksOpen, sinksOpen' = sinksOpen
  PROVE  SinkStep(i)
<1>1. written' = written
  BY DEF FlushSinks
<1>2. CASE i \notin DOMAIN written
  BY <1>1, <1>2, NoSink
<1>3. CASE /\ i \in DOMAIN written /\ fault' = fault
           /\ flushed' = [j \in DOMAIN written |-> Len(written[j])]
  BY <1>1, <1>3, SinkFlushes
<1>4. ASSUME i \in DOMAIN written, NEW bad \in DOMAIN written, fault' = "flush",
             flushed' = [j \in DOMAIN written |->
                           IF j < bad THEN Len(written[j]) ELSE flushed[j]]
      PROVE  SinkStep(i)
  <2>1. CASE i < bad
    BY <1>1, <1>4, <2>1, SinkFlushes
  <2>2. CASE ~(i < bad)
    <3>1. flushed'[i] = flushed[i]
      BY <1>4, <2>2
    <3>2. UNCHANGED <<Given(i), Safe(i), Shown(i)>> /\ SinkPhase(i)' = "failed"
      BY <1>1, <1>4, <3>1 DEF Given, Safe, Shown, SinkPhase
    <3>3. SinkPhase(i) # "none"
      BY <1>4 DEF SinkPhase
    <3> QED
      BY <3>2, <3>3, SinkStops
  <2> QED
    BY <2>1, <2>2
<1> QED
  BY <1>2, <1>3, <1>4 DEF FlushSinks

(* The worker writes to a sink and flushes it only while it is open, and   *)
(* writes to it only if none has thrown.                                   *)
LEMMA WorkerUsesSinks ==
  ASSUME TypeInv, PlaceInv, ContractInv, NEW i, WorkerStep \/ WorkerTimeout \/ Tick
  PROVE  SinkStep(i)
<1>1. sinksOpen' = sinksOpen /\ (worker # "none" => sinksOpen)
  BY WorkerFrame DEF PlaceInv, WorkerPlaces, TypeInv, TypeOK
<1>2. CASE \/ WorkerPop \/ WorkerQueueStep \/ WorkerTimeout \/ Tick \/ WorkerCloses
           \/ CheckClosed \/ WorkerFails
  <2>1. UNCHANGED sinkVars
    BY <1>2
    DEF WorkerPop, WorkerQueueStep, WorkerTimeout, Tick, WorkerCloses, CheckClosed,
        WorkerFails, GoOn, OnlyWorker, OnlyQueue, sinkVars
  <2> QED
    BY <2>1, SinksRest
<1>3. CASE WorkerStart
  <2>1. CASE UNCHANGED sinkVars
    BY <2>1, SinksRest
  <2>2. CASE fault' = "write" /\ UNCHANGED <<written, flushed>>
    <3>1. UNCHANGED <<Given(i), Safe(i), Shown(i)>>
      BY <2>2 DEF Given, Safe, Shown
    <3>2. /\ SinkPhase(i)' \in {"failed", "none"}
          /\ SinkPhase(i) = "none" => SinkPhase(i)' = "none"
      BY <1>1, <2>2 DEF SinkPhase
    <3> QED
      BY <3>1, <3>2, SinkStops
  <2> QED
    BY <1>1, <1>3, <2>1, <2>2 DEF WorkerStart, GoOn, sinkVars
<1>4. ASSUME FlushAfterBatch \/ NoBatch \/ FinalFlush, ~UNCHANGED sinkVars
      PROVE  SinkStep(i)
  <2>1. worker # "none"
    BY <1>4 DEF FlushAfterBatch, NoBatch, FinalFlush
  <2>2. \E a, b : FlushSinks(a, b)
    BY <1>1, <1>4 DEF FlushAfterBatch, NoBatch, FinalFlush, GoOn, sinkVars
  <2> QED
    BY <1>1, <2>1, <2>2, FlushSinksStep
<1>5. CASE WriteBatch
  <2>1. /\ fault = "none" /\ sinksOpen /\ sinksOpen' /\ flushed' = flushed
        /\ fault' \in {"none", "write"} /\ batch[Worker] \in Seq(Q!Entry)
    BY <1>1, <1>5
    DEF WriteBatch, ContractInv, PhaseInv, Serving, TypeInv, TypeOK, Q!TypeOK
  <2>2. DOMAIN written' = DOMAIN written
    BY <1>5 DEF WriteBatch, WrittenUntil
  <2>3. CASE i \notin DOMAIN written
    BY <2>2, <2>3, NoSink
  <2>4. CASE i \in DOMAIN written
    <3>1. \E part \in Seq(Q!Entry) : written'[i] = written[i] \o part
      <4>1. ASSUME NEW bad, NEW n \in 0..Len(batch[Worker]), written' = WrittenUntil(bad, n)
            PROVE  \E part \in Seq(Q!Entry) : written'[i] = written[i] \o part
        <5> DEFINE part == IF i < bad THEN batch[Worker]
                           ELSE IF i = bad THEN SubSeq(batch[Worker], 1, n) ELSE <<>>
        <5>1. part \in Seq(Q!Entry)
          BY <2>1, PartInOrder
        <5>2. written'[i] = written[i] \o part
          BY <2>4, <4>1 DEF WrittenUntil
        <5> QED
          BY <5>1, <5>2
      <4> QED
        BY <1>5, <2>1, <2>4, <4>1 DEF WriteBatch
    <3>2. PICK part \in Seq(Q!Entry) : written'[i] = written[i] \o part
      BY <3>1
    <3>3. Given(i)' >= Given(i)
      <4>1. written[i] \in Seq(Q!Entry)
        BY <2>4 DEF TypeInv, TypeOK
      <4>2. /\ Len(written[i] \o part) = Len(written[i]) + Len(part)
            /\ Len(written[i]) \in Nat /\ Len(part) \in Nat
        BY <4>1, ConcatProperties
      <4>3. Given(i) = Len(written[i]) /\ Given(i)' = Len(written[i] \o part)
        BY <2>2, <2>4, <3>2 DEF Given
      <4> QED
        BY <4>2, <4>3
    <3>4. SinkPhase(i) = "open" /\ SinkPhase(i)' \in {"open", "failed"}
      BY <2>1, <2>2, <2>4 DEF SinkPhase
    <3>5. UNCHANGED <<Safe(i), Shown(i)>>
      BY <2>1, <2>2 DEF Safe, Shown
    <3>6. Sink(i)!WriteBatch
      BY <3>3, <3>4, <3>5 DEF Sink!WriteBatch, SinkPhase, Given, Safe, Shown
    <3> QED
      BY <3>6 DEF SinkStep, Sink!Next
  <2> QED
    BY <2>3, <2>4
<1> QED
  BY <1>2, <1>3, <1>4, <1>5, SinksRest DEF WorkerStep

(* The steps of init() and stop(): sinks are closed before they are        *)
(* dropped, and those that init() makes have got nothing yet.              *)
LEMMA ControlUsesSinks ==
  ASSUME TypeInv, PlaceInv, ContractInv, ClosedInv, NEW i, NEW k \in Controllers,
         \/ Stop(k) \/ ControlStep(k)
         \/ \E cf \in Configs : InitCall(k, cf)
  PROVE  SinkStep(i)
<1>1. CASE \/ Stop(k) \/ InitSpawn(k) \/ InitAbort(k) \/ StopClose(k)
           \/ \E cf \in Configs : InitCall(k, cf)
  <2>1. UNCHANGED sinkVars
    BY <1>1 DEF Stop, InitSpawn, InitAbort, StopClose, InitCall
  <2> QED
    BY <2>1, SinksRest
<1>2. CASE InitJoin(k) \/ StopJoin(k) \/ InitAborted(k)
  <2>1. ~sinksOpen' /\ UNCHANGED <<written, flushed>>
    BY <1>2 DEF InitJoin, StopJoin, InitAborted
  <2>2. UNCHANGED <<Given(i), Safe(i), Shown(i)>> /\ SinkPhase(i)' = "none"
    BY <2>1 DEF Given, Safe, Shown, SinkPhase
  <2> QED
    BY <2>2, SinkStops
<1>3. CASE InitReset(k)
  <2>1. /\ ~sinksOpen /\ ~sinksOpen'
        /\ written' = [j \in 1..request[k].sinks |-> <<>>]
        /\ flushed' = [j \in 1..request[k].sinks |-> 0]
    BY <1>3 DEF ClosedInv, InitReset
  <2>2. Given(i)' = 0 /\ Safe(i)' = 0 /\ Shown(i)' = <<>>
    <3>1. CASE i \notin 1..request[k].sinks
      BY <2>1, <3>1 DEF Given, Safe, Shown
    <3>2. CASE i \in 1..request[k].sinks
      <4>1. /\ i \in DOMAIN written' /\ written'[i] = <<>> /\ flushed'[i] = 0
            /\ Len(<<>>) = 0
        BY <2>1, <3>2, EmptySeq
      <4> QED
        BY <4>1, CountNone DEF Given, Safe, Shown
    <3> QED
      BY <3>1, <3>2
  <2>3. SinkPhase(i) = "none" /\ SinkPhase(i)' = "none"
    BY <2>1 DEF SinkPhase
  <2>4. Sink(i)!Destroy
    BY <2>2, <2>3 DEF Sink!Destroy, SinkPhase, Given, Safe, Shown
  <2> QED
    BY <2>4 DEF SinkStep, Sink!Next
<1>4. CASE InitConfigure(k)
  <2>1. /\ control[k] = "initConfigure" /\ sinksOpen'
        /\ UNCHANGED <<written, flushed, fault>>
    BY <1>4 DEF InitConfigure
  <2>2. /\ ~sinksOpen /\ fault = "none"
        /\ \A j \in DOMAIN written : written[j] = <<>>
    BY <2>1
    DEF ClosedInv, ContractInv, BeginInv, Begins, Beginning, PlaceInv, ControlPlaces
  <2>3. CASE i \notin DOMAIN written
    BY <2>1, <2>3, NoSink
  <2>4. CASE i \in DOMAIN written
    <3>1. Given(i) = 0 /\ Safe(i) = 0 /\ Shown(i) = <<>>
      <4>1. Given(i) = 0
        BY <2>2, <2>4, EmptySeq DEF Given
      <4>2. Safe(i) \in 0..Given(i) /\ Shown(i) = [j \in 1..Safe(i) |-> j]
        BY SinkShows
      <4>3. Safe(i) = 0
        BY <4>1, <4>2
      <4> QED
        BY <4>1, <4>2, <4>3, CountNone
    <3>2. UNCHANGED <<Given(i), Safe(i), Shown(i)>>
      BY <2>1 DEF Given, Safe, Shown
    <3>3. SinkPhase(i) = "none" /\ SinkPhase(i)' = "open"
      BY <2>1, <2>2, <2>4 DEF SinkPhase
    <3>4. Sink(i)!Create
      BY <3>1, <3>2, <3>3 DEF Sink!Create, SinkPhase, Given, Safe, Shown
    <3> QED
      BY <3>4 DEF SinkStep, Sink!Next
  <2> QED
    BY <2>3, <2>4
<1> QED
  BY <1>1, <1>2, <1>3, <1>4 DEF ControlStep

(* Every step of the program uses the i-th sink properly.                  *)
LEMMA NextUsesSinks ==
  ASSUME NEW i
  PROVE  TypeInv /\ PlaceInv /\ ContractInv /\ ClosedInv /\ [Next]_vars => SinkStep(i)
<1> SUFFICES ASSUME TypeInv, PlaceInv, ContractInv, ClosedInv, [Next]_vars
             PROVE  SinkStep(i)
  OBVIOUS
<1>1. ASSUME NEW p \in Producers,
             \/ ProducerStep(p)
             \/ \E level \in Levels : ShouldLog(p, level) \/ Log(p, level)
      PROVE  UNCHANGED sinkVars
  BY <1>1, ProducerFrame DEF TypeInv, TypeOK
<1>2. CASE \/ UNCHANGED vars
           \/ \E level \in Levels : SetLevel(level)
           \/ \E t \in Q!Threads : CloseNotify(t) \/ SpuriousWake(t)
  <2>1. UNCHANGED sinkVars
    BY <1>2 DEF vars, SetLevel, CloseNotify, SpuriousWake, OnlyQueue
  <2> QED
    BY <2>1, SinksRest
<1> QED
  BY <1>1, <1>2, SinksRest, WorkerUsesSinks, ControlUsesSinks DEF Next

(* init() makes the sinks only in its last part.                           *)
LEMMA NextClosed == TypeInv /\ ClosedInv /\ [Next]_vars => ClosedInv'
<1> SUFFICES ASSUME TypeInv, ClosedInv, [Next]_vars PROVE ClosedInv'
  OBVIOUS
<1>1. ASSUME UNCHANGED <<control, sinksOpen>> PROVE ClosedInv'
  BY <1>1 DEF ClosedInv
<1>2. ASSUME NEW p \in Producers,
             \/ ProducerStep(p)
             \/ \E level \in Levels : ShouldLog(p, level) \/ Log(p, level)
      PROVE  ClosedInv'
  BY <1>1, <1>2, ProducerFrame DEF TypeInv, TypeOK, sinkVars, controlVars
<1>3. CASE WorkerStep \/ WorkerTimeout \/ Tick
  BY <1>1, <1>3, WorkerFrame DEF TypeInv, TypeOK, controlVars
<1>4. ASSUME NEW k \in Controllers,
             \/ Stop(k) \/ ControlStep(k)
             \/ \E cf \in Configs : InitCall(k, cf)
      PROVE  ClosedInv'
  <2>1. control \in [Controllers -> ControlStates] /\ Nobody \notin Controllers
    BY LoggerAssumption DEF TypeInv, TypeOK
  <2>2. \A j \in Controllers \ {k} :
          control[k] # "idle" \/ lifecycleOwner = Nobody => control[j] = "idle"
    BY <2>1 DEF TypeInv, TypeOK
  <2>3. CASE Stop(k) \/ \E cf \in Configs : InitCall(k, cf)
    BY <2>1, <2>3 DEF Stop, InitCall, sinkVars, ClosedInv
  <2>4. CASE ControlStep(k) /\ ~InitConfigure(k)
    BY <2>1, <2>4
    DEF ControlStep, InitJoin, InitReset, InitSpawn, InitAbort, InitAborted, StopClose,
        StopJoin, Go, Return, sinkVars, ClosedInv
  <2>5. CASE InitConfigure(k)
    BY <2>1, <2>2, <2>5 DEF InitConfigure, Go, ClosedInv
  <2> QED
    BY <1>4, <2>3, <2>4, <2>5
<1>5. CASE \/ UNCHANGED vars
           \/ \E level \in Levels : SetLevel(level)
           \/ \E t \in Q!Threads : CloseNotify(t) \/ SpuriousWake(t)
  BY <1>1, <1>5
  DEF vars, SetLevel, CloseNotify, SpuriousWake, OnlyQueue, sinkVars, controlVars
<1> QED
  BY <1>2, <1>3, <1>4, <1>5 DEF Next

(* Initially there are no sinks.                                           *)
LEMMA InitUsesSinks ==
  ASSUME NEW i
  PROVE  Init => ClosedInv /\ Sink(i)!Init
<1> SUFFICES ASSUME Init PROVE ClosedInv /\ Sink(i)!Init
  OBVIOUS
<1>1. ~sinksOpen /\ written = <<>> /\ i \notin DOMAIN <<>>
  BY EmptySeq DEF Init
<1> QED
  BY <1>1 DEF ClosedInv, Sink!Init

(* The worker and the lifecycle calls use every sink as LogSink.h asks:    *)
(* none is written to or flushed before it is made, after it is closed, or *)
(* written to after one of them has thrown.                                *)
THEOREM SinksCorrect ==
  ASSUME NEW i
  PROVE  Spec => Sink(i)!Init /\ [][Sink(i)!Next]_(Sink(i)!vars)
<1>1. Init => ClosedInv /\ Sink(i)!Init
  BY InitUsesSinks
<1>2. TypeInv /\ PlaceInv /\ ContractInv /\ ClosedInv /\ [Next]_vars =>
        [Sink(i)!Next]_(Sink(i)!vars)
  BY NextUsesSinks DEF SinkStep
<1> QED
  BY <1>1, <1>2, InitTypes, InitPlaces, InitContract, NextTypes, NextPlaces,
     NextContract, NextClosed, PTL DEF Spec

(* In particular the first two, which a run checks.                        *)
THEOREM UsesSinksCorrect == Spec => UsesSinksProperly
<1>1. Init => ClosedInv /\ Sink(1)!Init /\ Sink(2)!Init
  BY InitUsesSinks
<1>2. TypeInv /\ PlaceInv /\ ContractInv /\ ClosedInv /\ [Next]_vars =>
        [Sink(1)!Next]_(Sink(1)!vars) /\ [Sink(2)!Next]_(Sink(2)!vars)
  BY NextUsesSinks DEF SinkStep
<1> QED
  BY <1>1, <1>2, InitTypes, InitPlaces, InitContract, NextTypes, NextPlaces,
     NextContract, NextClosed, PTL DEF Spec, UsesSinksProperly

================================================================================

-------------------------------- MODULE Logger --------------------------------
(***************************************************************************)
(* The Logger of include/Logger.h and src/Logger.cpp: application threads  *)
(* that log, threads that call init() and stop(), the worker thread that   *)
(* init() starts, and the BlockingQueue between them.                      *)
(*                                                                         *)
(* Grain of atomicity.  lifecycleMutex_ is held exclusively over several   *)
(* steps of init() and stop().  The section of logImpl() under the shared  *)
(* lock is one step, taken when nobody holds the mutex exclusively: it     *)
(* reads running_ and minLevel_ and a generation that cannot change under  *)
(* the lock.  Queue calls take the steps BlockingQueue gives them.  sinks_ *)
(* and what the worker keeps are touched by one thread at a time, so a     *)
(* whole loop over the sinks is one step.                                  *)
(***************************************************************************)
EXTENDS Naturals, Sequences, FiniteSets

CONSTANTS
  Producers,     (* threads that call log(), logStatic() or a LOG_ macro   *)
  Controllers,   (* threads that call init() and stop()                    *)
  Worker,        (* the thread running workerLoop()                        *)
  Nobody,        (* owner of an unlocked lifecycleMutex_                   *)
  Configs,       (* the configurations init() is called with               *)
  Levels,        (* the numeric values of LogLevel in use                  *)
  SizeMax,       (* see BlockingQueue                                      *)
  MaxCalls,      (* bound: log calls of one producer                       *)
  MaxInits,      (* bound: initializations that reach queue_.reset()       *)
  WorkerMayFail, (* whether sinks, formatting and reserve() may throw      *)
  InitMayFail    (* whether a sink or the thread may fail to be created    *)

FlushPolicies == {"OnStop", "Periodic", "EveryBatch"}

(* sinks is how many the file sink, the console sink and additionalSinks   *)
(* make together; wellFormed stands for the conditions of init() that read *)
(* nothing the model keeps: enumerators, paths, sizes, intervals           *)
LoggerConfig ==
  [queueCapacity : Nat, overflowPolicy : {"Block", "DropNewest", "DropOldest"},
   writeBatchSize : Nat, minLevel : Levels, flushPolicy : FlushPolicies,
   flushAtOrAbove : Nat, sinks : Nat, wellFormed : BOOLEAN]

ASSUME LoggerAssumption ==
  /\ Worker \notin Producers \cup Controllers
  /\ Producers \cap Controllers = {}
  /\ IsFiniteSet(Producers \cup Controllers)
  /\ Nobody \notin Controllers
  /\ Levels \subseteq Nat /\ 0 \in Levels
  /\ Configs # {} /\ Configs \subseteq LoggerConfig
  /\ SizeMax \in Nat \ {0} /\ MaxCalls \in Nat \ {0} /\ MaxInits \in Nat
  /\ WorkerMayFail \in BOOLEAN /\ InitMayFail \in BOOLEAN

VARIABLES
  (* queue_ and the queue calls of every thread *)
  queue, capacity, overflowPolicy, highWaterMark, droppedCount, closed,
  generation, pc, expected, value, method, maxCount, batch, result,
  (* members of Logger *)
  lifecycleOwner, (* who holds lifecycleMutex_ exclusively                 *)
  running,        (* running_                                              *)
  minLevel,       (* minLevel_                                             *)
  config,         (* writeBatchSize_, flushPolicy_, flushAtOrAbove_, in    *)
                  (* the record init() got them from                       *)
  sinksOpen,      (* sinks_ holds the sinks, and they are not closed       *)
  written,        (* what writeBatch() has given to each sink since reset  *)
  flushed,        (* how much of that each sink has flushed                *)
  flushDue,       (* steady_clock::now() >= nextFlush                      *)
  worker,         (* where workerLoop() is; "none": worker_ not joinable   *)
  (* the callers *)
  logging,        (* where each producer is in its log call                *)
  record,         (* the LogRecord it has built                            *)
  calls,          (* how many log calls it has made                        *)
  control,        (* where each controller is in init() or stop()          *)
  request,        (* the configuration it passes to init()                 *)
  returned,       (* what its last init() returned                         *)
  (* history, read by no action *)
  accepted,       (* the elements push() put into the queue since reset()  *)
  fault           (* what a sink has thrown in since reset(): "none",      *)
                  (* "write" (or the formatting before it), "flush"        *)

queueVars == <<queue, capacity, overflowPolicy, highWaterMark, droppedCount,
               closed, generation, pc, expected, value, method, maxCount,
               batch, result>>
settingVars == <<running, minLevel, config>>
sinkVars == <<sinksOpen, written, flushed, fault>>
workerVars == <<flushDue, worker>>
producerVars == <<logging, record, calls, accepted>>
controlVars == <<control, request, returned, lifecycleOwner>>
vars == <<queueVars, settingVars, sinkVars, workerVars, producerVars,
          controlVars>>

(* Steps that change nothing but the queue, but it and the producers       *)
OnlyQueue ==
  UNCHANGED <<settingVars, sinkVars, workerVars, producerVars, controlVars>>
OnlyProducer == UNCHANGED <<settingVars, sinkVars, workerVars, controlVars>>

(* lifecycle is a history tag, the generation in which logImpl() admitted  *)
(* the record; the time stamp, thread id, file, line and text are left out *)
LogRecord == [by : Producers, number : 1..MaxCalls, level : Levels,
              lifecycle : 0..MaxInits]

Q == INSTANCE BlockingQueue WITH
       Consumers <- {Worker},
       Values <- LogRecord,
       Capacities <- {cf.queueCapacity : cf \in Configs},
       MaxBatch <- 0, MaxGeneration <- MaxInits, MaxDropped <- 0

--------------------------------------------------------------------------------
(* Application threads: shouldLog(), log(), logStatic(), the LOG_ macros *)

Passes(level) == running /\ level >= minLevel

(* LOG_IMPL, first half: shouldLog() without any lock *)
ShouldLog(p, level) ==
  /\ logging[p] = "idle" /\ pc[p] = "idle" /\ calls[p] < MaxCalls
  /\ calls' = [calls EXCEPT ![p] = @ + 1]
  /\ \/ /\ Passes(level)
        /\ logging' = [logging EXCEPT ![p] = "admitted"]
        /\ record' = [record EXCEPT ![p].number = calls'[p], ![p].level = level]
     \/ ~Passes(level) /\ UNCHANGED <<logging, record>>
  /\ UNCHANGED <<queueVars, accepted>> /\ OnlyProducer

(* The section of logImpl() under the shared lock *)
Capture(p, number, level) ==
  /\ lifecycleOwner = Nobody
  /\ \/ /\ Passes(level)
        /\ Q!GetGeneration(p)
        /\ record' = [record EXCEPT ![p] =
                        [by |-> p, number |-> number, level |-> level,
                         lifecycle |-> generation]]
        /\ logging' = [logging EXCEPT ![p] = "captured"]
     \/ /\ ~Passes(level)
        /\ logging' = [logging EXCEPT ![p] = "idle"]
        /\ UNCHANGED <<queueVars, record>>
  /\ UNCHANGED accepted /\ OnlyProducer

(* log() or logStatic() called directly *)
Log(p, level) ==
  /\ logging[p] = "idle" /\ pc[p] = "idle" /\ calls[p] < MaxCalls
  /\ calls' = [calls EXCEPT ![p] = @ + 1]
  /\ Capture(p, calls'[p], level)

(* LOG_IMPL, second half: logStatic() *)
LogStatic(p) ==
  /\ logging[p] = "admitted"
  /\ Capture(p, record[p].number, record[p].level)
  /\ UNCHANGED calls

(* History: the element that the current step of p has put into the queue. *)
Accept(p) ==
  accepted' = IF /\ result'[p] \in {"Enqueued", "DroppedOldest"}
                 /\ pc'[p] = "notifyEmpty"
              THEN Append(accepted, queue'[Len(queue')])
              ELSE accepted

(* queue_.push(queueGeneration, record), after the shared lock is released *)
PushRecord(p) ==
  /\ logging[p] = "captured"
  /\ Q!Push(p, record[p])
  /\ logging' = [logging EXCEPT ![p] = "idle"]
  /\ Accept(p)
  /\ UNCHANGED <<record, calls>> /\ OnlyProducer

ProducerQueueStep(p) ==
  /\ Q!ProducerStep(p)
  /\ IF pc[p] = "notFullWoken" THEN Accept(p) ELSE UNCHANGED accepted
  /\ UNCHANGED <<logging, record, calls>> /\ OnlyProducer

SetLevel(level) ==
  /\ minLevel' = level
  /\ UNCHANGED <<queueVars, running, config, sinkVars, workerVars,
                 producerVars, controlVars>>

--------------------------------------------------------------------------------
(* The worker thread: workerLoop() *)

Periodic == config.flushPolicy = "Periodic"

Due_Never == FALSE
Due == Periodic /\ flushDue

(* The other variables of a worker step that calls no queue function *)
OnlyWorker ==
  UNCHANGED <<queueVars, minLevel, config, sinksOpen, producerVars, controlVars>>

GoOn(state) ==
  /\ worker' = state
  /\ UNCHANGED <<flushDue, running, written, flushed, fault>> /\ OnlyWorker

(* flushSinks(): a sink that throws keeps the sinks after it from flushing. *)
FlushSinks(next, afterThrow) ==
  \/ /\ flushed' = [i \in DOMAIN written |-> Len(written[i])]
     /\ worker' = next
     /\ UNCHANGED <<written, fault>>
  \/ /\ WorkerMayFail
     /\ \E bad \in DOMAIN written :
          flushed' = [i \in DOMAIN written |->
                        IF i < bad THEN Len(written[i]) ELSE flushed[i]]
     /\ fault' = "flush"
     /\ worker' = afterThrow
     /\ UNCHANGED written

(* nextFlush comes: steady_clock::now() >= nextFlush from here on. *)
Tick ==
  /\ Periodic /\ ~flushDue
  /\ worker \notin {"none", "exited"}
  /\ flushDue' = TRUE
  /\ UNCHANGED <<queueVars, settingVars, sinkVars, worker, producerVars,
                 controlVars>>

(* The batches are reserved, which a large writeBatchSize may not allow.   *)
WorkerStart ==
  /\ worker = "starting"
  /\ \/ GoOn("loop")
     \/ /\ WorkerMayFail
        /\ fault' = "write"
        /\ worker' = "failing"
        /\ UNCHANGED <<flushDue, running, written, flushed>> /\ OnlyWorker

(* The next round: popBatchFor() under Periodic, else popBatch() *)
WorkerPop ==
  /\ worker = "loop"
  /\ Q!Pop(Worker, IF Periodic THEN "popBatchFor" ELSE "popBatch",
           config.writeBatchSize)
  /\ worker' = "popping"
  /\ UNCHANGED <<flushDue, settingVars, sinkVars, producerVars, controlVars>>

WorkerQueueStep == Q!ConsumerStep(Worker) /\ OnlyQueue
WorkerTimeout == Q!PopTimeout(Worker) /\ OnlyQueue

(* What each sink has got when bad throws after n records of the batch *)
WrittenUntil_SkipsBad(bad, n) ==
  [i \in DOMAIN written |-> written[i] \o (IF i = bad THEN <<>> ELSE batch[Worker])]

WrittenUntil(bad, n) ==
  [i \in DOMAIN written |->
     written[i] \o (IF i < bad THEN batch[Worker]
                    ELSE IF i = bad THEN SubSeq(batch[Worker], 1, n) ELSE <<>>)]

(* A batch was popped: every sink gets it, in order, until one throws with *)
(* part of the batch written.                                              *)
WriteBatch ==
  /\ worker = "popping" /\ pc[Worker] = "idle" /\ result[Worker] = "values"
  /\ \/ /\ written' = [i \in DOMAIN written |-> written[i] \o batch[Worker]]
        /\ worker' = "written"
        /\ UNCHANGED fault
     \/ /\ WorkerMayFail
        /\ \E bad \in DOMAIN written, n \in 0..Len(batch[Worker]) :
             written' = WrittenUntil(bad, n)
        /\ fault' = "write"
        /\ worker' = "failing"
  /\ UNCHANGED <<flushDue, running, flushed>> /\ OnlyWorker

FlushForLevel_LastRecord ==
  /\ batch[Worker] # <<>>
  /\ batch[Worker][Len(batch[Worker])].value.level >= config.flushAtOrAbove

FlushForLevel ==
  \E i \in DOMAIN batch[Worker] :
    batch[Worker][i].value.level >= config.flushAtOrAbove

FlushNow == config.flushPolicy = "EveryBatch" \/ FlushForLevel \/ Due

NextRound_ChecksClosed == "check"
NextRound == "loop"

(* The flush decision at the end of a round *)
FlushAfterBatch ==
  /\ worker = "written"
  /\ \/ ~FlushNow /\ GoOn(NextRound)
     \/ /\ FlushNow
        /\ FlushSinks(NextRound, "failing")
        /\ flushDue' = FALSE
        /\ UNCHANGED running /\ OnlyWorker

(* !hasBatch, up to the call of queue_.closed() *)
NoBatch ==
  /\ worker = "popping" /\ pc[Worker] = "idle" /\ result[Worker] = "noValues"
  /\ \/ ~Due /\ GoOn("check")
     \/ /\ Due
        /\ FlushSinks("check", "failing")
        /\ flushDue' = FALSE
        /\ UNCHANGED running /\ OnlyWorker

AfterNoBatch_Loops == "loop"
AfterNoBatch == IF closed THEN "finalFlush" ELSE "loop"

CheckClosed == worker = "check" /\ GoOn(AfterNoBatch)

AfterFault_GoesOn == IF worker = "failing" THEN "loop" ELSE "exited"
AfterFault_LeavesOpen == IF worker = "failing" THEN "finalFlush" ELSE "exited"
AfterFault == IF worker = "failing" THEN "closing" ELSE "closingLast"

WorkerFails_KeepsRunning ==
  worker \in {"failing", "failingLast"} /\ GoOn(AfterFault)

(* Either catch block: running_ is cleared, then the queue is closed. *)
WorkerFails ==
  /\ worker \in {"failing", "failingLast"}
  /\ running' = FALSE
  /\ worker' = AfterFault
  /\ UNCHANGED <<flushDue, written, flushed, fault>> /\ OnlyWorker

AfterClose_Exits == "exited"
AfterClose == IF worker = "closing" THEN "finalFlush" ELSE "exited"

WorkerCloses ==
  /\ worker \in {"closing", "closingLast"}
  /\ Q!Close(Worker)
  /\ worker' = AfterClose
  /\ UNCHANGED <<flushDue, settingVars, sinkVars, producerVars, controlVars>>

(* The flush after the loop, and the exit *)
FinalFlush ==
  /\ worker = "finalFlush" /\ pc[Worker] = "idle"
  /\ FlushSinks("exited", "failingLast")
  /\ UNCHANGED <<flushDue, running>> /\ OnlyWorker

WorkerStep ==
  \/ WorkerStart \/ WorkerPop \/ WorkerQueueStep \/ WriteBatch
  \/ FlushAfterBatch \/ NoBatch \/ CheckClosed \/ WorkerFails \/ WorkerCloses
  \/ FinalFlush

--------------------------------------------------------------------------------
(* init() and stop(); ~Logger() is one more stop() *)

Valid(cf) ==
  cf.queueCapacity > 0 /\ cf.writeBatchSize > 0 /\ cf.sinks > 0 /\ cf.wellFormed

Joinable == worker # "none"
Exited == worker = "exited" /\ pc[Worker] = "idle"

JoinWorker_Skipped == UNCHANGED worker
JoinWorker == (Joinable => Exited) /\ worker' = "none"

(* Return from init() or stop(), releasing lifecycleMutex_ *)
Return(k, r) ==
  /\ lifecycleOwner' = Nobody
  /\ control' = [control EXCEPT ![k] = "idle"]
  /\ returned' = [returned EXCEPT ![k] = r]
  /\ UNCHANGED request

Go(k, state) ==
  /\ control' = [control EXCEPT ![k] = state]
  /\ UNCHANGED <<lifecycleOwner, request, returned>>

(* init(): lock, and validate *)
InitCall(k, cf) ==
  /\ control[k] = "idle" /\ lifecycleOwner = Nobody
  /\ \/ /\ running \/ ~Valid(cf)
        /\ returned' = [returned EXCEPT ![k] = "false"]
        /\ UNCHANGED <<control, request, lifecycleOwner>>
     \/ /\ ~running /\ Valid(cf)
        /\ generation < MaxInits
        /\ lifecycleOwner' = k
        /\ control' = [control EXCEPT ![k] = "initJoin"]
        /\ request' = [request EXCEPT ![k] = cf]
        /\ UNCHANGED returned
  /\ UNCHANGED <<queueVars, settingVars, sinkVars, workerVars, producerVars>>

(* Join a worker that has failed, close and drop the sinks, make new ones *)
InitJoin(k) ==
  /\ control[k] = "initJoin"
  /\ JoinWorker
  /\ sinksOpen' = FALSE
  /\ \/ Go(k, "initReset")
     \/ InitMayFail /\ Return(k, "false")
  /\ UNCHANGED <<queueVars, settingVars, written, flushed, fault, flushDue,
                 producerVars>>

(* queue_.reset(); what the new sinks have got starts empty *)
InitReset(k) ==
  /\ control[k] = "initReset"
  /\ Q!Reset(k, request[k].queueCapacity, request[k].overflowPolicy)
  /\ Go(k, "initConfigure")
  /\ written' = [i \in 1..request[k].sinks |-> <<>>]
  /\ flushed' = [i \in 1..request[k].sinks |-> 0]
  /\ fault' = "none"
  /\ accepted' = <<>>
  /\ UNCHANGED <<settingVars, sinksOpen, workerVars, logging, record, calls>>

(* The settings, up to running_ = true *)
InitConfigure(k) ==
  /\ control[k] = "initConfigure"
  /\ minLevel' = request[k].minLevel
  /\ config' = request[k]
  /\ sinksOpen' = TRUE
  /\ running' = TRUE
  /\ Go(k, "initSpawn")
  /\ UNCHANGED <<queueVars, written, flushed, fault, workerVars, producerVars>>

InitSpawn(k) ==
  /\ control[k] = "initSpawn"
  /\ \/ /\ worker' = "starting"
        /\ flushDue' = FALSE
        /\ Return(k, "true")
        /\ UNCHANGED running
     \/ /\ InitMayFail
        /\ running' = FALSE
        /\ Go(k, "initAbort")
        /\ UNCHANGED workerVars
  /\ UNCHANGED <<queueVars, minLevel, config, sinkVars, producerVars>>

InitAbort(k) ==
  /\ control[k] = "initAbort"
  /\ Q!Close(k)
  /\ Go(k, "initAborting")
  /\ UNCHANGED <<settingVars, sinkVars, workerVars, producerVars>>

InitAborted(k) ==
  /\ control[k] = "initAborting" /\ pc[k] = "idle"
  /\ sinksOpen' = FALSE
  /\ Return(k, "false")
  /\ UNCHANGED <<queueVars, settingVars, written, flushed, fault, workerVars,
                 producerVars>>

Stop_UnlocksEarly(k) ==
  /\ control[k] = "idle" /\ lifecycleOwner = Nobody
  /\ control' = [control EXCEPT ![k] = "stopClose"]
  /\ running' = FALSE
  /\ UNCHANGED <<queueVars, minLevel, config, sinkVars, workerVars,
                 producerVars, request, returned, lifecycleOwner>>

(* stop(): lock, clear running_ *)
Stop(k) ==
  /\ control[k] = "idle" /\ lifecycleOwner = Nobody
  /\ lifecycleOwner' = k
  /\ control' = [control EXCEPT ![k] = "stopClose"]
  /\ running' = FALSE
  /\ UNCHANGED <<queueVars, minLevel, config, sinkVars, workerVars,
                 producerVars, request, returned>>

StopClose(k) ==
  /\ control[k] = "stopClose"
  /\ Q!Close(k)
  /\ Go(k, "stopJoin")
  /\ UNCHANGED <<settingVars, sinkVars, workerVars, producerVars>>

(* Join the worker, close and drop the sinks *)
StopJoin(k) ==
  /\ control[k] = "stopJoin" /\ pc[k] = "idle"
  /\ JoinWorker
  /\ sinksOpen' = FALSE
  /\ Return(k, "none")
  /\ UNCHANGED <<queueVars, settingVars, written, flushed, fault, flushDue,
                 producerVars>>

ControlStep(k) ==
  \/ InitJoin(k) \/ InitReset(k) \/ InitConfigure(k) \/ InitSpawn(k)
  \/ InitAbort(k) \/ InitAborted(k) \/ StopClose(k) \/ StopJoin(k)

--------------------------------------------------------------------------------
(* The whole program *)

(* notify_all of close(), and a wakeup nobody sent *)
CloseNotify(t) == Q!CloseNotify(t) /\ OnlyQueue
SpuriousWake(t) == Q!SpuriousWake(t) /\ OnlyQueue

Init ==
  /\ value = [p \in Producers |->
                [by |-> p, number |-> 1, level |-> 0, lifecycle |-> 0]]
  /\ Q!Init
  /\ running = FALSE
  /\ minLevel = 0
  /\ config = CHOOSE cf \in Configs : TRUE
  /\ sinksOpen = FALSE
  /\ written = <<>> /\ flushed = <<>> /\ fault = "none"
  /\ flushDue = FALSE /\ worker = "none"
  /\ logging = [p \in Producers |-> "idle"]
  /\ record = value
  /\ calls = [p \in Producers |-> 0]
  /\ control = [k \in Controllers |-> "idle"]
  /\ request = [k \in Controllers |-> config]
  /\ returned = [k \in Controllers |-> "none"]
  /\ lifecycleOwner = Nobody
  /\ accepted = <<>>

ProducerStep(p) == LogStatic(p) \/ PushRecord(p) \/ ProducerQueueStep(p)

Next ==
  \/ \E p \in Producers :
       \/ ProducerStep(p)
       \/ \E level \in Levels : ShouldLog(p, level) \/ Log(p, level)
  \/ \E level \in Levels : SetLevel(level)
  \/ WorkerStep \/ WorkerTimeout \/ Tick
  \/ \E k \in Controllers :
       Stop(k) \/ ControlStep(k) \/ \E cf \in Configs : InitCall(k, cf)
  \/ \E t \in Q!Threads : CloseNotify(t) \/ SpuriousWake(t)

Spec == Init /\ [][Next]_vars

(* Threads finish the calls they made and the worker runs: the scheduler   *)
(* is fair, locks are granted, sinks return, clocks advance.  The deadline *)
(* of wait_for() is absolute, so that sleeping again after a wakeup does   *)
(* not postpone it: strong fairness.  Nobody has to make a call.           *)
Fairness ==
  /\ \A p \in Producers : WF_vars(ProducerStep(p))
  /\ \A k \in Controllers : WF_vars(ControlStep(k))
  /\ WF_vars(WorkerStep) /\ SF_vars(WorkerTimeout) /\ WF_vars(Tick)
  /\ \A t \in Q!Threads : WF_vars(CloseNotify(t))

FairSpec == Spec /\ Fairness

--------------------------------------------------------------------------------
(* Safety *)

WorkerStates == {"none", "starting", "loop", "popping", "written", "check", "failing",
                 "closing", "finalFlush", "failingLast", "closingLast", "exited"}
ControlStates == {"idle", "initJoin", "initReset", "initConfigure",
                  "initSpawn", "initAbort", "initAborting", "stopClose",
                  "stopJoin"}

(* The types of the header; the lifecycle lock has a holder exactly while  *)
(* that controller is inside init() or stop(), so nobody else is.          *)
TypeOK ==
  /\ Q!TypeOK
  /\ running \in BOOLEAN /\ sinksOpen \in BOOLEAN /\ flushDue \in BOOLEAN
  /\ minLevel \in Levels /\ config \in Configs
  /\ \A i \in DOMAIN written : written[i] \in Seq(Q!Entry)
  /\ DOMAIN flushed = DOMAIN written
  /\ \A i \in DOMAIN written : flushed[i] \in 0..Len(written[i])
  /\ fault \in {"none", "write", "flush"}
  /\ worker \in WorkerStates
  /\ logging \in [Producers -> {"idle", "admitted", "captured"}]
  /\ record \in [Producers -> LogRecord]
  /\ calls \in [Producers -> 0..MaxCalls]
  /\ control \in [Controllers -> ControlStates]
  /\ request \in [Controllers -> Configs]
  /\ returned \in [Controllers -> {"none", "true", "false"}]
  /\ \A k \in Controllers : control[k] # "idle" <=> lifecycleOwner = k
  /\ accepted \in Seq(Q!Entry)

(* What the worker has popped and not yet given to the sinks *)
InFlight ==
  IF worker = "popping" /\ result[Worker] = "values" THEN batch[Worker]
  ELSE <<>>

ElementsOf(s) == {s[i] : i \in DOMAIN s}

(* A restart changes the generation: wherever a record is, in the queue,   *)
(* with the worker or in a sink, it was admitted in the present lifecycle, *)
(* although its push() may start, or wake up, after stop() and init().     *)
LifecycleIsolation ==
  \A e \in ElementsOf(queue) \cup ElementsOf(InFlight) \cup
            UNION {ElementsOf(written[i]) : i \in DOMAIN written} :
    e.value.lifecycle = generation

(* What is at two places of s is in t, and in the same order.              *)
InOrder(s, t) ==
  \A j, k \in DOMAIN s : \E a, b \in DOMAIN t :
    t[a] = s[j] /\ t[b] = s[k] /\ (j < k => a < b)

(* No record is accepted twice.  Until a sink throws, what each sink got,  *)
(* what the worker holds and what is queued are together the accepted      *)
(* records: each once, in the order accepted, and only DropOldest leaves   *)
(* some out, as many as droppedCount counts.  After a fault nothing is     *)
(* duplicated or reordered either.                                         *)
Conservation ==
  /\ \A a, b \in DOMAIN accepted : accepted[a] = accepted[b] => a = b
  /\ \A i \in DOMAIN written :
       LET kept == written[i] \o InFlight \o queue IN
       /\ InOrder(kept, accepted)
       /\ fault = "none" =>
            Len(accepted) - Len(kept) =
              IF overflowPolicy = "DropOldest" THEN droppedCount ELSE 0

(* stop() "drains accepted records": once the worker has left its loop     *)
(* without a fault, no accepted record is left in the queue, and none is   *)
(* put there before the next init().                                       *)
DrainedAtExit ==
  worker \in {"finalFlush", "exited"} /\ fault = "none" => queue = <<>>

(* While running_ is set and no init() or stop() is in progress, a worker  *)
(* serves an open queue, or is on its way to say that it failed.           *)
RunningMeansServed ==
  running /\ lifecycleOwner = Nobody =>
    /\ ~closed
    /\ worker \in {"starting", "loop", "popping", "written", "check", "failing"}

(* Every sink has got a prefix of what the sink before it has got, also    *)
(* after one of them threw in the middle of a batch.                       *)
FanOutInOrder ==
  \A i, j \in DOMAIN written :
    i < j => /\ Len(written[j]) <= Len(written[i])
             /\ written[j] = SubSeq(written[i], 1, Len(written[j]))

(* Once the worker has gone, after a drained queue or after a write that   *)
(* failed, every sink has flushed what it got, unless flush() threw.       *)
FlushedAtExit ==
  worker \in {"none", "exited"} /\ fault # "flush" =>
    \A i \in DOMAIN written : flushed[i] = Len(written[i])

(* Before the worker sleeps again, every record at or above flushAtOrAbove *)
(* is flushed, wherever in its batch it was, and under EveryBatch so is    *)
(* every other record.                                                     *)
FlushedBeforeSleep ==
  worker = "popping" /\ result[Worker] = "none" =>
    \A i \in DOMAIN written : \A j \in flushed[i] + 1 .. Len(written[i]) :
      /\ written[i][j].value.level < config.flushAtOrAbove
      /\ config.flushPolicy # "EveryBatch"

(* BlockingQueue.h says of reset(): "the Logger calls it only after the    *)
(* old worker has exited", also after a worker that failed by itself; a    *)
(* consumer asleep across close() and reset() would miss the close().      *)
ResetFindsNoWorker ==
  [][generation' # generation => worker = "none" /\ pc[Worker] = "idle"]_vars

--------------------------------------------------------------------------------
(* Liveness *)

(* init() and stop() return: the join comes to an end, whatever the worker *)
(* and the producers blocked in push() were doing.                         *)
LifecycleCallsReturn ==
  \A k \in Controllers : control[k] # "idle" ~> control[k] = "idle"

(* log() returns once it has the generation: under Block a full queue is   *)
(* emptied, or closed by stop() or by the worker that failed.              *)
LogReturns ==
  \A p \in Producers :
    logging[p] = "captured" ~> (logging[p] = "idle" /\ pc[p] = "idle")

(* Periodic "flushes at flushInterval, even when no new record arrives":   *)
(* what the sinks got never stays unflushed from some moment on.           *)
PeriodicFlush ==
  []<>(fault = "flush" \/
       \A i \in DOMAIN written : flushed[i] = Len(written[i]))
================================================================================

# A verification project for cpp_logger

`cpp_logger` is an asynchronous logger in C++17. Application threads format nothing and touch
no file: they put records into a bounded queue, and one worker thread formats them and gives
them in batches to sinks (a rolling file, the console, or sinks of the application's own).
What is hard in it is what happens between the threads: blocking when the queue is full,
`stop()` and a second `init()` while other threads are inside `log()`, sinks that throw, a
file sink that rolls at midnight or when a file is full, and a process that dies.

This directory holds TLA+ modules of those parts, the TLC configurations that check them on
small instances, and proofs for TLAPS. Run the tools in this directory:

    tlc -workers 2 -config queue_safety.cfg MCBlockingQueue       # one run of the table below
    tlapm BlockingQueueProofs.tla                                 # the proofs of one module

## 1. The system

| Component | Source | State | Operations |
|---|---|---|---|
| `BlockingQueue` | `include/BlockingQueue.h` | `queue_`, `capacity_`, `overflowPolicy_`, `highWaterMark_`, `droppedCount_`, `closed_`, `generation_`, all under `mutex_`; the condition variables `notFull_`, `notEmpty_` | `push` (two forms), `pop`, `popBatch`, `popBatchFor`, `close`, `reset`, observers |
| Logger, application threads | `include/Logger.h`, `src/Logger.cpp` | `running_`, `minLevel_` (atomics), `lifecycleMutex_` (shared) | the `LOG_` macros, `shouldLog`, `log`, `logStatic`, `setLevel` |
| Logger, lifecycle | `src/Logger.cpp` | `lifecycleMutex_` (exclusive), `worker_`, `sinks_`, the settings | `init`, `stop`, the destructor |
| Logger, worker thread | `src/Logger.cpp` | the batch, `nextFlush` | `workerLoop`, `flushSinks` |
| Logger, formatting | `src/Logger.cpp` | the cached time prefix | `formatMessage`, `formatTime`, `levelToString` |
| `LogSink`, sinks of the application | `include/LogSink.h` | their own | `writeBatch`, `flush`, `close` |
| `FileSink` | `src/LogSink.cpp` | `out_`, `pending_`, `currentDate_`, `currentSize_`, `fileIndex_`; the files | constructor, `writeBatch`, `flush`, `close` |
| `ConsoleSink` | `src/LogSink.cpp` | `pending_`; the stream, which belongs to the process | `writeBatch`, `flush`, `close` |
| `ProducerGroup` | `benchmark/common/BenchmarkHarness.h` | start, completion and release barriers, the first failure | `start`, the worker function, `releaseAndJoin` |
| Rest of the benchmark | `benchmark/` | none that outlives a call | options, run directories, statistics, CSV; drivers for three loggers |
| Example program | `examples/example.cpp` | its threads | `main` |
| Tests, package consumer | `tests/`, build files | | |

How they interact. `log()` takes `lifecycleMutex_` shared, reads `running_` and the queue's
generation, *releases the lock*, builds the record and calls `push(generation, record)`, which
may sleep. `init()` and `stop()` hold `lifecycleMutex_` exclusively throughout, also while
they join the worker. The worker takes no lifecycle lock; it learns that it has to leave only
from `closed()`. It closes the queue itself when a sink throws. `sinks_` and the settings are
written under the exclusive lock while no worker runs, and read by the worker.

What is hard, and what correctness means for each part:

* **BlockingQueue.** Notifications are sent after the mutex is released, waits may time out or
  end for no reason, and one `popBatch` can make room for several producers. No wakeup may be
  lost, the capacity must hold, and a producer that slept across `close()` and `reset()` must
  be turned away although the queue is open again and has room.
* **Application threads and lifecycle.** A record admitted before a restart must not enter the
  restarted logger. What was accepted must be written exactly once and in order, `stop()` must
  drain the queue and must return, `log()` must not block for ever.
* **Worker.** The flush policies promise when data is flushed, also for a batch of mixed
  levels, after a fault, and when no record arrives any more. A fault must leave `running_`,
  the queue, the sinks and the blocked producers in a consistent state.
* **FileSink.** The size bookkeeping must agree with the files, also those found at startup; no
  record may be lost or misplaced when the sink rolls; a crash may cost only the end.
* **ConsoleSink.** Its stream is shared and outlives it. What a failed write has left behind must not be
  shown again.
* **Formatting.** A line is made long after the call, from copies and from a cache; it must tell the call.
* **Flush timer.** The arithmetic of `nextFlush` must flush neither early nor late.
* **Example.** A client: its last lines come after all others, and what it logged before `stop()` was accepted, also when a thread cannot be created.

`PROJECT.json` lists the hazards line by line, with the properties that cover each.

## 2. The modules

    BlockingQueue ------ MCBlockingQueue           TLC: queue_safety, queue_liveness
      |   \------------- BlockingQueueProofs       TLAPS
      | INSTANCE
    Logger ------------- MCLogger                  TLC: logger_liveness, logger_periodic_drain
      |   \                | EXTENDS
      |    \             LoggerContract            TLC: logger_promise, logger_faults
      |     \              |  \------ LoggerProofs TLAPS
      |      \             | INSTANCE
      |       \          AsyncLog, LogSink         abstract
      |        \                   | INSTANCE
      |         \       FileSinkContract, ConsoleSink    TLC: sink_files, sink_console
      | EXTENDS  \        | EXTENDS  \        \--- ConsoleSinkProofs    TLAPS
      |           \     FileSink      \------ FileSinkProofs    TLAPS
    Example ------------ MCExample                 TLC: example_order
        \--------------- ExampleProofs             TLAPS, extends LoggerProofs
    Formatter ---------- MCFormatter               TLC: format_lines
        \--------------- FormatterProofs           TLAPS
    FlushTimer                                     TLC: timer_intervals
        \--------------- FlushTimerProofs          TLAPS
    ProducerGroup ------ MCProducerGroup           TLC: group_barriers
        \--------------- ProducerGroupProofs       TLAPS

`Logger` composes with `BlockingQueue` by `INSTANCE`: every queue call of the logger takes the
steps of the queue module, on the same variables. `Example` extends `Logger` with a program that
makes the calls. Between `Logger` and the sinks stands `LogSink`, the interface as a contract of
two sides: `FileSinkContract` and `ConsoleSink` show that the sinks of the library owe what it
says, `LoggerContract` that the worker and the lifecycle calls use each of their sinks as it
allows; `Logger` itself knows a sink only by what it was given and what it has flushed, and a sink
may throw anywhere. `Formatter` and `FlushTimer` look into one step of `Logger` each: what a
record and a line hold, and when `flushDue` becomes true. `ProducerGroup`, the benchmark's, stands
alone: for it `submit_()` is a call that returns or throws. That `log()` returns is `LogReturns`
of `Logger`.

### BlockingQueue

One action per *critical section*. What a call does between locking and unlocking `mutex_`, or
going to sleep, is one action; the notification after `unlock()` is another; a thread that was
woken locks the mutex again in a third. `pc` says where a thread is:

| `pc[t]` | The thread is |
|---|---|
| `idle` | outside the queue; `result[t]` is what the last call returned |
| `notFullWait`, `notEmptyWait` | asleep in `notFull_`, `notEmpty_` |
| `notFullWoken`, `notEmptyWoken` | woken, waiting for the mutex |
| `notEmptyTimedOut` | past its deadline in `wait_for`, waiting for the mutex |
| `notifyEmpty` | in `push` after `unlock()`, before `notEmpty_.notify_one()` |
| `notifyFullOne`, `notifyFullAll` | in `pop`, `popBatch*` after `unlock()`, before the notification |
| `closeEmpty`, `closeFull` | in `close()`, before the first, the second `notify_all` |

`reset()` notifies under the lock, so it is one action. An element carries the generation its
`push` was given: a tag the program does not have, for `GenerationIsolation`. `size()`,
`peakSize()`, `droppedCount()` and `closed()` read one variable under the lock: no action.
A queue is constructed with no limit (`SizeMax`), policy Block, and generation 0.

### Logger

`lifecycleOwner` is the thread that holds `lifecycleMutex_` exclusively. `init()` is
`InitCall`, `InitJoin`, `InitReset`, `InitConfigure`, `InitSpawn`, and, when the thread cannot be
created, `InitAbort`, `InitAborted`; `stop()` is `Stop`, `StopClose`, `StopJoin`. They are cut where another thread
can see the difference (the queue, `running_`, `minLevel_`, the worker's exit). A producer is `idle`,
`admitted` (past the unlocked `shouldLog()` of the macro) or `captured` (it has the generation
and has released the lock). The worker's states are the places of `workerLoop()`:

| `worker` | Place in `workerLoop()` |
|---|---|
| `none` | there is no joinable thread |
| `starting` | the thread runs; its batches are not reserved yet |
| `loop` | top of the loop |
| `popping` | in `popBatch` or `popBatchFor`; once that has returned, before its result is used |
| `written` | every sink has the batch; the flush decision is next |
| `check` | no batch; the next thing is `queue_.closed()` |
| `failing`, `closing` | in the first catch block, before `running_ = false`, before `close()` |
| `finalFlush` | after the loop |
| `failingLast`, `closingLast` | in the second catch block |
| `exited` | returned, to be joined |

Time is abstracted to `flushDue`, whether `nextFlush` has come, which `Tick` sets at any time.
The timeout that the worker computes from it is not kept: a timed wait may end at any moment,
earlier or later than `nextFlush`, as a loaded machine and rounding to milliseconds allow (`FlushTimer` has the numbers).
Three variables are history and no action reads them: `accepted`, `fault`, and the
`lifecycle` of a record.

`AsyncLog` is what `Logger` promises: a log that is `off`, `open`, `closing` or `broken`, with the
records `pending` and `delivered`; under fairness nothing stays pending. `LoggerContract` maps to it: pending is
what the worker holds and what is queued, delivered what the first sink got. The log is off when it is closed
and the worker gone, broken when a sink has thrown. An overwritten record
leaves `pending` in the step that accepts its successor. The mapping to `LogSink` is per sink: one that is
not open is `none`, and once any sink has thrown all of them count as `failed`, since the worker
uses them together.

### FileSink

A record is its size in bytes, newline included, and for the properties also its number and
the sink's. A record on its way is in `batch` (not yet looked at), `pending` (`pending_`),
`buffer` (given to `out_`, perhaps still in the stream's memory) or `content` (in a file).
`writeBatch()` is `WriteBatch`, then for each record `CheckDate`, `RollForSize` as often as the
loop of `rollIfNeeded()` runs, `AppendRecord`; then `EndBatch`. Midnight, a crash, or the
stream emptying its buffer may come between any two steps. Every open, write and flush can
fail: in `WriteFails` with a part of the data written, in `Roll` with the date and the index
already advanced, in `FlushFails` and `Close` with a part saved. Dates may go back (`NewDate`, when `ClockGoesBack`).

`FileSinkContract` maps to `LogSink`. Its `output` is the numbers of the present sink's lines in all files (`Lines`),
each at the place that the count of lines `Before` it gives. A line is before another if its file's name is (by date, then by index) or if it is above it in the
same file. For a sink under which the date went back (`wentBack`) the names do not give the order of the records; then the
lines are taken by number, and only what is there is compared, each line as often as it occurs. The subtraction in the loop condition is modulo `Width`. The external parts
(`ofstream`, `currentDate()`, the file system) are modelled from how `FileSink` uses them.

### ConsoleSink

`pending` is `pending_`; `buffer` and `bad` are the buffer and the error state of `std::cout` or
`std::cerr`, `terminal` what has been shown. A call is one action, since one thread makes it and
the environment acts on the stream between calls: `Spill` (the buffer is written in part),
`Application` (the stream fails for somebody else, or is cleared), `Crash`. Sinks follow each other on the
same stream; the `output` of the present one is the end of the terminal below the last line of another (`Start`, `Numbers`).

### Formatter

`LogImpl` builds the record as `logImpl()` does, with a pointer or a copy for the file name;
`ReuseBuffer` is the caller that goes on; `FormatMessage` is `formatMessage()` with the cache in `hasCached`,
`cachedSecond`, `cachedPrefix`. A prefix is a second of local time, which stands for the text
`strftime()` gives; the milliseconds are digits; of the thread's id the line has the hash. `called`, `zones` and a record's `origin` are history.

### FlushTimer

Counts of ticks go from `-Limit` to `Limit - 1` (2^63 in the build) and wrap around, `PerMs` ticks make a
millisecond, and `Clock` goes on between any two steps. `WorkerStart` sets `nextFlush`; a round is `ComputeTimeout`, `PopBatchFor`
(which makes the timeout a deadline), `Woken`, `Decide`, and `FlushEnds` when it flushes. `lastFlush` and
`asked` are history.

### Example

`main` is where `main()` is, `thread[t]` the state of each thread it creates. `main()` is one thread with two
roles in `Logger`: as `Main` it logs, as the controller it calls `init()` and `stop()`; `Ready(Main)` waits for both.

### ProducerGroup

Again one action per critical section. `main` is the thread that runs `runOnce()`: `launching`
threads, waiting for them to be ready (`readyWait`, `readyWoken`), starting them, waiting for
completion, looking for a failure (`rethrow`), `draining` the logger, then `releaseAndJoin()`
(`release`, `releaseNotify`, `joining`), called explicitly and, when `destroying`, by the destructor. `worker[w]` is the
place of a thread in the group's `workerLoop()`. A thread may not be creatable, `prepare_()`, `submit_()` and
draining may throw. When a run has gone well the next starts with a group of its own; after an
exception the program ends.

## 3. The runs

| Run | Instance | What it checks | Distinct states |
|---|---|---|---|
| `queue_safety` | 2 producers, 2 consumers, 1 controller, capacity 2 or 0 (made 1), 1 `reset` | `TypeOK`, `CapacityBound`, `GenerationIsolation`, `NoMissedClose`, `NoLostWakeup` | 2 475 805 |
| `queue_liveness` | 2 producers, 1 consumer, 1 controller, capacity 2, fair | `CloseReleasesProducers`, `BlockedProducerServed`, `BlockedConsumerServed` | 138 480 |
| `logger_promise` | 2 producers with 1 call, 1 controller, 2 `init`, three policies and an invalid configuration, OnStop and EveryBatch, a sink that throws, fair | `LifecycleIsolation`, `Conservation`, `ImplementsAsyncLog` | 432 364 |
| `logger_faults` | 2 producers with 1 call, 2 `init`, 2 sinks that throw, reserving and creation that fail, 2 levels, Periodic and EveryBatch | `TypeOK`, `RunningMeansServed`, `FanOutInOrder`, `FlushedAtExit`, `FlushedBeforeSleep`, `UsesSinksProperly`, `ResetFindsNoWorker` | 2 547 804 |
| `logger_liveness` | 1 producer with 3 calls, 1 controller, Periodic, a sink that throws, fair | `LifecycleCallsReturn`, `LogReturns`, `PeriodicFlush` | 97 819 |
| `logger_periodic_drain` | 1 producer with 1 call, 1 controller, Periodic | `DrainedAtExit` is *violated*: section 5 | |
| `sink_files` | sizes 1 (two fill a file of 2) and 3 (fits no file), 3 records, 2 days, 2 sinks, faults, crashes, a clock that goes back, fair | `TypeOK`, `SizeBound`, `SizeTracked`, `WriteBatchReturns`, `ImplementsLogSink` | 1 369 891 |
| `sink_console` | 3 records per sink, 2 sinks on one stream | `ShownOnce`, `ImplementsLogSink` | 2 370 |
| `format_lines` | 5 times in 3 seconds, 2 zones, 2 callers, 2 line numbers, a level that is no enumerator | `LineTellsCall`, `TimeOfRecord` | 1 164 504 |
| `timer_intervals` | intervals 0 (refused) to 3 ms of 3 ticks, one of 40 ms whose end passes a `Limit` of 128 from the 8th tick on, one that always overflows it, 20 ticks | `FlushNotEarly`, `NoOversleep` | 458 066 |
| `example_order` | 2 threads of 2 messages, creation that fails | `LinesInProgramOrder`, `EndsComplete` | 724 049 |
| `group_barriers` | 3 threads, 2 messages, everything may fail, fair | `TypeOK`, `StartTogether`, `DoneMeansAll`, `ThreadsOutliveDrain`, `NoFailureSwallowed`, `RunEnds` | 155 894 |

What the properties say is in the comment before each.

Why the bounds are enough.

* *Threads.* The queue's hazards are races of two threads of one kind (one takes the place that
  another was woken for) with one of the other kind. Two producers and two consumers give all of
  them. The Logger has one consumer by design. A second controller would only wait for
  `lifecycleMutex_`, on which the runs already make producers wait.
* *Capacity 2 with batches of 2* is the smallest case in which one `popBatch` frees two places.
  Capacity 1 in the Logger makes `Block`, `DropNewest` and `DropOldest` act at the second record.
* *`MaxGeneration`, `MaxInits`.* Two initializations give a record of the first a second
  lifecycle to get into. A queue's generation only ever matters as equal or different.
* *`MaxDropped`* bounds what may be pushed after a drop. The counter is read by no action.
* *Records.* `logger_promise` and `logger_faults` give each of two threads one call: one record can be with the worker or
  in the sinks while the other is queued, refused, overwrites the first or is still on its way over a restart. Longer sequences of
  calls are in `logger_liveness` (3) and `example_order` (9). `logger_promise` runs without the timer, whose drain
  (section 5) breaks the promise.
* *FileSink.* With sizes 1 and 3 in a file of 2, one record leaves room, two fill a file exactly, 3 fits none. Two sinks one
  after the other is what a restart or a crash gives. `MaxIndex` 5 is the least that cuts off no behaviour: a larger one reaches the
  same states.
* *Formatter.* One record is in flight: records do not meet, only the cache outlives them. The times have milliseconds
  of one, two and three digits, two share a second, and they come in any order.
* *FlushTimer.* Three ticks in a millisecond are the least that tell rounding up, down and exact apart; 20 ticks
  allow two flushes after an interval of 3. A sum overflows a `Limit` of 128 as it
  overflows 2^63, and the interval of 40 ms gives sums on both sides of it; the proofs are for any.
* *Example.* 5 calls of `main()` and those of two threads exceed a queue of 1 and a batch.
* *ProducerGroup.* Three threads give one that fails, one that is asleep and one that has not
  arrived, at the same time; for more there are the proofs.
* *Symmetry* is used for producers and for consumers in `queue_safety` and `logger_faults`, which check invariants and action properties only. No action distinguishes
  them, and no invariant names one. The liveness runs use none.

Deadlock is checked in the queue, logger, console, format and example runs, where some step is always
possible; that of the example ends in a step that repeats. The file sink and timer runs switch it off: when bounded
lives, days, records and ticks are used up they may stop. So do the group runs: after a failed run the program ends. There `RunEnds` says that it gets so far.

### Fairness

Weak fairness is assumed for each thread's *own* next step inside a call: the scheduler runs a
ready thread, a free mutex is granted in the end, a call of a sink, of `submit_()` or of the C++
library returns. Calls are never assumed: nobody has to log, stop, or pop. A wakeup without cause is
not assumed either. `Tick` is weakly fair since clocks advance. The Logger's timed wait gets
strong fairness: `wait_for` turns its timeout into a deadline, so that a thread that is woken
and sleeps again over and over still returns at the deadline. Weak fairness would let needless
wakeups postpone it for ever. `lifecycleMutex_` is taken in one step when it is free, with no claim on
who gets it first: that `stop()` is not starved by readers is up to the library and no
liveness property speaks of a call that has not got the lock. `AsyncLog` needs no more than that `Logger` is
fair: its own fairness (nothing stays pending, nothing half closed) is what `logger_promise` shows. For `FileSink` only the
steps of `writeBatch()` are fair, for `ProducerGroup` those of its threads and of `main`.

## 4. What is proved

TLAPS checks the theorems below for *every* value of the constants that satisfies the named assumptions of the
modules (`ThreadAssumption`, `SizeAssumption`, `LoggerAssumption`, `TimerAssumption`, `SinkAssumption`,
`ConsoleAssumption`, `FormatterAssumption`, `ExampleAssumption`, `GroupAssumption`): they say that sets of threads are finite and do not overlap, that sizes and
bounds are numbers, what the constructors and `init()` check, and, of the example, that its only controller is `main()`. Nothing bounds the number of threads, of sinks, of records or of initializations,
other than the bounds the modules themselves name. Where a theorem has a hypothesis of its own it is in the table.
The strengthenings were tried with TLC on the runs' instances before they were proved.

| Module | Theorem | Statement |
|---|---|---|
| `BlockingQueueProofs` | `TypeCorrect` | `Spec => []TypeOK` |
| | `CapacityCorrect` | `Spec => []CapacityBound` |
| | `IsolationCorrect` | `Spec => []GenerationIsolation` |
| | `CloseCorrect` | `Spec => []NoMissedClose` |
| | `WakeupCorrect` | `Spec => []NoLostWakeup` |
| `LoggerProofs` | `LoggerTypeCorrect` | `Spec => []TypeOK` |
| | `ServedCorrect` | `Spec => []RunningMeansServed` |
| | `ResetCorrect` | `Spec => ResetFindsNoWorker`, an action property |
| | `LifecycleCorrect` | `Spec => []LifecycleIsolation` |
| | `FanOutCorrect` | `Spec => []FanOutInOrder` |
| | `ExitCorrect`, `SleepCorrect` | `Spec => []FlushedAtExit`, `Spec => []FlushedBeforeSleep` |
| | `DeliveryCorrect` | `Spec => []Conservation` |
| | `DrainCorrect` | `Untimed` implies `Spec => []DrainedAtExit` |
| | `LogCorrect` | `Untimed` implies that `Spec` implements `AsyncLog` but for its fairness: initial states are mapped to initial states, and steps to steps or to nothing |
| | `SinksCorrect` | for every `i`, `Spec` implements `LogSink` as its `i`-th sink sees it |
| | `UsesSinksCorrect` | `Spec => UsesSinksProperly` |
| `FileSinkProofs` | `FileTypeCorrect` | `Spec => []TypeOK`, which says that `currentSize_` stays within `size_t` |
| | `BoundCorrect` | `Spec => []SizeBound` |
| | `TrackedCorrect` | `Spec => []SizeTracked` |
| | `FileKeepsContract` | `Spec => ImplementsLogSink`: every step of a file sink is one of `LogSink` or shows nothing |
| `ConsoleSinkProofs` | `ShownCorrect` | `Spec => []ShownOnce` |
| | `ConsoleKeepsContract` | `Spec => ImplementsLogSink` |
| `FormatterProofs` | `LineCorrect` | `Spec => []LineTellsCall` |
| | `TimeCorrect` | `Spec => []TimeOfRecord` |
| `FlushTimerProofs` | `NotEarlyCorrect` | `Spec => []FlushNotEarly` |
| | `OversleepCorrect` | `Spec => []NoOversleep` |
| `ExampleProofs` | `OrderCorrect` | `ExampleSpec => []LinesInProgramOrder` |
| | `CompleteCorrect` | `ExampleSettings` implies `ExampleSpec => []EndsComplete` |
| `ProducerGroupProofs` | `GroupTypeCorrect` | `Spec => []TypeOK`, which says that each counter counts each thread once |
| | `StartCorrect`, `DoneCorrect` | `Spec => []StartTogether`, `Spec => []DoneMeansAll` |
| | `DrainCorrect` | `Spec => []ThreadsOutliveDrain` |
| | `FailureCorrect` | `Spec => []NoFailureSwallowed` |

`Untimed` says that no configuration has the policy Periodic. It cannot go: with Periodic the code breaks
`DrainedAtExit`, as section 5 shows, and with it the promise of `AsyncLog`. `ExampleSettings` says of the example's
configurations what `examples/example.cpp` sets: the policy Block, and a level that lets `LOG_INFO` through. The run
has such configurations.

### The queue

`TypeOK` is inductive alone; one lemma per locked section (`AwaitRoomType`, `PushLockedType`, `TakeLockedType`, ...)
is cited by every action that contains that section. `CapacityBound` and `GenerationIsolation` are about the
members only, and each rests on one lemma that says what a step may do to them: `NextContents`, every step leaves the
contents alone, appends one element of the present generation to the contents or their tail where the policy permits it,
removes a prefix, or empties the queue. Both are then inductive relative to `TypeOK`.

`NoMissedClose` is not inductive: when `reset()` reopens the queue between the two `notify_all` of a `close()`, one must
know that those who slept were woken and who sleeps now. Its strengthening `IInv` adds `SleepersPush`, that
only producers sleep in `notFull_` (so that `expected` is defined for them). The proof goes by kinds of step: a
step of one thread of its own that puts it to sleep only where the predicate allows (`OwnStepKeeps`), one that only
wakes (`WakingKeeps`), `close()`, `reset()`.

`NoLostWakeup` counts: as long as somebody sleeps, there are at least as many threads awake, or about to notify, as
there are elements to take (or places to fill), unless somebody is about to notify all. The argument is about sets and not about numbers. `Covers` says how
the work and the set of those awake for it may change together (no more work; one thread more for one thing
more; one thread less and its thing done; one thread in the place of another), `CoversEnough` gets the inequality
from that with the cardinality theorems of the library, and one lemma per action shows that its step is of that kind, or
that nobody sleeps after it, or that it wakes everybody. It needs `PopsOne`, that `pop()` asks for one element: a thread that
takes one and notifies one.

### The Logger

`LoggerProofs` first says what a call of the queue does as far as the Logger depends on it (`Pushes`, `Takes`,
`QueueNext`), so that the later proofs look into the queue no more. Then there is one invariant for each question.

* `TypeInv` adds to `TypeOK` that an `init()` on its way has room for one generation more.
* `PlaceInv` says what the places of the controllers and of the worker tell about each other and about `running`,
  `closed` and the sinks: from the join on there is no worker until `init()` makes one; `running` is set only on an open queue;
  and so on. `RunningMeansServed` and `ResetFindsNoWorker` follow from it.
* `IsolationInv` adds to `LifecycleIsolation` the tags of the producers: the generation each holds for its `push()` is
  the lifecycle of its record, also while it sleeps in the queue across a restart.
* `FanOutInv` says that as long as no sink has thrown all have the same, and that what a later one has is a prefix of what
  an earlier one has.
* `FlushInv` says which written records may be unflushed at each place of the worker: only `Lazy` ones, those that no policy wants at once,
  and between the write and the flush decision those of the batch.

The second part of the module follows the records. `Kept(i)` is what sink `i` has, what is in flight and what is queued, in one sequence.
Every step is one of five: it hands records on within `Kept` (`HandsOn`), adds an accepted record (`Admits`),
does so in place of another (`Replaces`), loses some to a fault (`Loses`), or starts with nothing (`StartsAfresh`). `InOrder` is transitive and
respects concatenation, so `Kept(i)` stays in order with `accepted`, and the difference of their lengths is
`droppedCount` under DropOldest. `OnceInv` says that nothing is accepted twice: a producer's records carry the numbers of its calls, and
the one on its way has the latest. `Conservation` has its "in order" as a statement about pairs of places; with `SelectSeq` it could
be evaluated but not be proved. `DrainInv` says that a worker in `popBatch()` reaches the end only
from a queue that is closed and empty, and stays so.

The third part proves the refinement of `AsyncLog` step by step. `ContractInv` says which generations
the producers may hold while an `init()` is on its way (never the one just begun, so that nothing comes into the queue before
`init()` has made the worker or given up, `HolderInv` and `BeginInv`) and which phase of its life the log is in (`PhaseInv`). A `push()` that grows
the queue is then an `Accept` of an open log (`TakesWhenOpen`, `GrowsAccepts`), what the worker writes is a `Deliver` or, where a
sink throws, a `Break` (`WriteLogs`, `FaultLogs`), and its exit a `Finish` with nothing pending, by `DrainInv`; `init()` opens the log
when it resets the queue. All other steps show nothing (`Standstill`).

The contract with the sinks needs only `ClosedInv`, that `init()` replaces sinks that are closed; `SinksCorrect` is for any
index, hence for any number of sinks, where the run and `UsesSinksProperly` speak of two.

### The sinks

*FileSink.* The three invariants are proved together, with `Places`: only a failed sink has a bad stream, and until it fails it
writes to the file it has named last. That is needed since the file a sink rolls to must not be the one it has:
`FileSize` of it is read before the old one gets what was pending. All steps but `AppendRecord` add nothing to any file
(`AddsNothing`), so that what a file holds stays a part of what fitted; in `AppendFits` the condition of the
loop, with its unsigned subtraction, has to say that the next record fits. `SizeOf` is a recursive function.
That it is defined and adds up is proved by induction, which is stated for a *set* of naturals (`AllNaturals`) since
the provers cannot use the library's induction theorems on a predicate; that one follows from `WFMin`.

That it implements `LogSink` rests on one number, `k`, the length of its output. `Saved(k)` says that the lines of the present
sink carry the numbers 1 to `k`, each once, and, while the clock is right, that the names of the files order them as the
numbers do; `Until(out)`, that none is in a file named after the present one; `Waiting(k)`, that the stream's buffer, `pending_` and the rest of the batch go
on from `k` in this order up to what was given, of which after a failure only a beginning is left in the buffer. `NoneLater` keeps
the files of earlier sinks apart. Under `Saved(k)` the output is 1 to `k` (`ReadSaved`): as many lines are before a line as
there are smaller numbers, which a bijection counts. What the steps do to the files is then one of two things: nothing (`SavesNothing`), or what comes next goes to the end of the present file (`SavesMore`, from `Grows`).
The next file is named after the last one since its date is today's, and today is not before `currentDate_` until the clock goes
back. Each step then is the step of `LogSink` one expects: a roll or a full buffer a `Save`, an idle `flush()` a `Flush` that leaves nothing waiting, every failure a `Fail`.

*ConsoleSink.* What is on the terminal and in the stream's buffer together is in the order of calls, and an open sink has nothing
left from a write that failed (`ConsoleInv`). For the contract both together end with the first records of the present sink, and with
all of them while it is open (`ContractInv`). The terminal is the beginning of that, so it ends with a part of them (`PartEndsWith`).

### The formatter, the timer, the example and the group

*Formatter.* A record holds what its caller passed in (`Faithful`), whatever becomes of the caller's buffer since
(`StateInv`); the cached prefix is that of the cached second in a zone that was in force (`CacheInv`); so the last line is the call's (`LineInv`).
`Digits` is a recursive function. It is shown to be what its equation says (`DigitsDefined`) by induction over the sets of numbers below
which a function with this equation exists; `Milliseconds` shows in three cases that padding and digits are three, with the right value.

*FlushTimer.* `TimerInv` keeps `nextFlush` as the wrapped sum of `lastFlush` and the interval. A wrapped sum is never above the exact
one (`WrapBelow`), whence `NoOversleep` for intervals that overflow too, and is the exact one where it `Fits`, whence
`FlushNotEarly`, which claims nothing where it does not fit.

*Example.* Its steps are steps of `Logger` (`ExampleSteps`), so what `LoggerProofs` shows holds in it. `ProgramInv` says how many calls `main()`
and each thread have made where they are, `OrderInv` that the accepted records are in program order; the sinks' lines are in the
order of the accepted, by `Conservation`. At the end the calls are counted. Under Block nothing is dropped (`BlockInv`), the worker leaves early only
after a fault (`FaultInv`), no call is turned away, since `main()` stops the logger after all threads were joined (`StageInv`, `WayInv`), so every
call's record is accepted (`CountInv`) and is with a sink, the worker or the queue (`KeptInv`). A bijection from the places in
`accepted` to the calls (`Made`) gives their number.

*ProducerGroup.* All follow from one inductive invariant, `IInv`. Not even `TypeOK` is inductive alone: that `sent` stays within its
range needs that a submitting thread has not sent all. `Phases` and `Threads` say what the place of `main` and of a
thread tells about the flags; `Barrier`, that an open start barrier of a complete launch has been passed by all. The step
that matters is `AwaitKeeps`: `main` finds a *counter* at the number of threads, and must conclude that
*every* thread is there. `CountAll` gives that from the cardinality of a subset, with `CountMove` keeping
the counters exact.

### Only model-checked

* Liveness: the prover does not reason about fairness and ENABLED here. Hence all leads-to properties of the runs, and of `ImplementsAsyncLog`
  the fairness that `AsyncLog` promises, that nothing stays pending.

With that every invariant and every safety property that a run checks has a theorem, and so has each refinement but for the
fairness of `AsyncLog`.

## 5. A disagreement between code and documentation

`logger_periodic_drain` finds a behaviour of 14 steps that loses an accepted record under
`FlushPolicy::Periodic`, which is the default:

1. `popBatchFor` times out on an empty queue and releases the mutex (worker in `popping`, without values);
2. a producer's `push` is accepted, so `log()` returns;
3. `stop()` clears `running_` and closes the queue, then waits to join the worker;
4. the worker goes on at `src/src/Logger.cpp:261`, sees `closed()`, and leaves the loop *without another pop*;
5. it flushes and exits; `stop()` closes the sinks and returns. The record is still in the queue,
   neither written nor counted as dropped.

`README_EN.md:226` says that `stop()` "rejects new records, drains accepted records, flushes, and closes every
sink", and the comment at `src/src/Logger.cpp:209` that the worker still drains what
was enqueued. With OnStop and EveryBatch
`stop()` drains the queue, which `ImplementsAsyncLog` includes (its `Finish`): `popBatch` returns
empty-handed only from a queue that is both closed and empty, and a closed queue accepts nothing.

## 6. Abstractions, and what is not modelled

* The part of `logImpl()` under the shared lock is one step. It reads `running_` and
  `minLevel_` one after the other; `setLevel()` may come between, which gives the same as
  before or after. The fast check of the macros is one step for the same reason.
* `Logger`'s records have no text, time, thread id or location; those are in `Formatter`. Formatting may throw only
  what a sink's `writeBatch()` throwing before its first record shows. `Formatter` leaves the calendar and the
  punctuation of a line out; time stamps are not before 1970.
* Of the validation in `init()` the numeric conditions are kept (zero capacity, batch size, no sinks);
  the others refuse in the same way. A configuration without `flushAtOrAbove` has one above every level.
* Exceptions are `std::exception`; another type would leave `workerLoop()` and end the program.
* `close()` of a sink may flush too. `Logger` does not count that as flushed, so its flush
  properties are about `flush()`. `FileSink` models it.
* `FileSink`: one process writes a set of files at a time, and a crash is the process's: what reached the
  operating system stays. A failed write or a crash leaves whole records: a line torn in the middle is not modelled, and no
  property is about it. `file_size()` is taken to fail only for a file that does not exist. Should it fail for another,
  `fileSize()` (`src/src/LogSink.cpp:98`) would report 0, and the file may then grow past the limit: `SizeBound` and
  `SizeTracked` hold only as long as sizes can be read. `fileIndex_` does not overflow.
* `FlushTimer` runs until its clock ends; how the worker leaves its loop is in `Logger`. `init()` accepts every positive
  `flushInterval` (`src/src/Logger.cpp:101`), and nanoseconds in 64 bits overflow from about 292 years on, with
  `std::chrono::milliseconds::max()` for instance. That is undefined in C++; the module wraps around, as 64-bit builds do. The
  deadline in `popBatchFor()` wraps in the same way. Then
  `nextFlush` may lie in the past and the worker flush in every round: the code *is* early there. So `FlushNotEarly` speaks only
  of flushes for which time and interval fit (`Fits`); without that condition `timer_intervals` violates it.
* `LogSink.h:13` says that the Logger calls a sink only on the backend thread; `close()` is called by `stop()` and `init()`, after the
  join. The contract is about the order of calls, not about which thread makes them.
* Condition variables and mutexes are those of the C++ standard; memory orders do not matter
  to the model since every cross-thread read is of an atomic or under a lock.
* A sink that calls the logger from `writeBatch()` is not modelled: the interface does not say that it may. It would
  wait for the lock that `stop()` holds while it joins the worker. Nor is a custom sink that is used again after `close()`.
* `queueSize()`, `queuePeakSize()` and `droppedCount()` read one variable each; what they read is
  in `CapacityBound` and `Conservation`.
* Options, statistics and CSV
  output of the benchmark, tests and build files keep no state that outlives a call. Of the benchmark's
  drivers `ProducerGroup` has what `runOnce()` does with its threads, not what it does with two libraries
  that are not in the repository.

## 7. What is left

The liveness properties are checked on the instances of section 3 only; a proof would need a prover that reasons about
`ENABLED`. Five hazards in `PROJECT.json` have no property, for the reasons given there: a sink that logs, `stop()` starved by
readers of `lifecycleMutex_`, sinks of the caller that a failed `init()` has closed, an interval that overflows the clock, and
an existing file whose size cannot be read.

----------------------------- MODULE BlockingQueue -----------------------------
(***************************************************************************)
(* The bounded queue of include/BlockingQueue.h as its threads see it: one *)
(* mutex, two condition variables, three overflow policies, a generation   *)
(* number that reset() advances.                                           *)
(*                                                                         *)
(* Grain of atomicity.  Everything a call does between locking mutex_ and  *)
(* unlocking it (or going to sleep in a condition variable, which releases *)
(* it in the same step) is one action.  What a call does after unlocking,  *)
(* that is every notify_one and notify_all, is an action of its own, so    *)
(* that other threads may run in between.  A thread that was woken has to  *)
(* lock the mutex again before it looks at its predicate: a third action.  *)
(***************************************************************************)
EXTENDS Naturals, Sequences, FiniteSets

CONSTANTS
  Producers,      (* threads that call push()                              *)
  Consumers,      (* threads that call pop(), popBatch(), popBatchFor()    *)
  Controllers,    (* threads that call close() and reset()                 *)
  Values,         (* T, the elements                                       *)
  Capacities,     (* the capacities reset() is called with                 *)
  SizeMax,        (* numeric_limits<size_t>::max(): no capacity limit      *)
  MaxBatch,       (* largest maxCount a consumer passes                    *)
  MaxGeneration,  (* bound: no further reset() from this generation on     *)
  MaxDropped      (* bound: no further push() from this drop count on      *)

Threads == Producers \cup Consumers \cup Controllers

OverflowPolicies == {"Block", "DropNewest", "DropOldest"}

ASSUME ThreadAssumption ==
  /\ Producers \cap Consumers = {}
  /\ Producers \cap Controllers = {}
  /\ IsFiniteSet(Threads)

ASSUME SizeAssumption ==
  /\ Capacities \subseteq Nat
  /\ SizeMax \in Nat \ {0}
  /\ MaxBatch \in Nat
  /\ MaxGeneration \in Nat
  /\ MaxDropped \in Nat

VARIABLES
  queue,          (* queue_                                                *)
  capacity,       (* capacity_                                             *)
  overflowPolicy, (* overflowPolicy_                                       *)
  highWaterMark,  (* highWaterMark_                                        *)
  droppedCount,   (* droppedCount_                                         *)
  closed,         (* closed_                                               *)
  generation,     (* generation_                                           *)
  pc,             (* where each thread is inside its call                  *)
  expected,       (* each producer's expectedGeneration                    *)
  value,          (* the value each producer is pushing                    *)
  method,         (* the pop function each consumer called last            *)
  maxCount,       (* and the maxCount it passed                            *)
  batch,          (* what that call has put into values                    *)
  result          (* what the last call of each thread returned            *)

members == <<queue, capacity, overflowPolicy, highWaterMark, droppedCount,
             closed, generation>>
vars == <<members, pc, expected, value, method, maxCount, batch, result>>

(* An element carries the generation its producer passed to push().  The   *)
(* tag is not in the program: it lets properties say whose element it is.  *)
Entry == [value : Values, generation : Nat]

PopMethods == {"pop", "popBatch", "popBatchFor"}

NotFullStates == {"notFullWait", "notFullWoken"}
NotEmptyStates == {"notEmptyWait", "notEmptyWoken", "notEmptyTimedOut"}
States == NotFullStates \cup NotEmptyStates \cup
          {"idle", "notifyEmpty", "notifyFullOne", "notifyFullAll",
           "closeEmpty", "closeFull"}
Results == {"none", "Enqueued", "DroppedNewest", "DroppedOldest", "Closed",
            "values", "noValues"}

(* The threads asleep in each condition variable. *)
OnNotFull == {t \in Threads : pc[t] = "notFullWait"}
OnNotEmpty == {t \in Threads : pc[t] = "notEmptyWait"}

Finish(t, state, r) ==
  /\ pc' = [pc EXCEPT ![t] = state]
  /\ result' = [result EXCEPT ![t] = r]

--------------------------------------------------------------------------------
(* push() *)

Rejected_IgnoresGeneration(g) == closed
Rejected(g) == closed \/ g # generation

WaitOver_IgnoresLifecycle(g) == Len(queue) < capacity
WaitOver_OffByOne(g) == closed \/ g # generation \/ Len(queue) <= capacity
WaitOver(g) == closed \/ g # generation \/ Len(queue) < capacity

EmplaceLocked_KeepsOldest(rest, e) ==
  /\ queue' = Append(queue, e)
  /\ highWaterMark' = IF Len(queue) + 1 > highWaterMark
                      THEN Len(queue) + 1 ELSE highWaterMark

(* emplaceLocked(), on the elements rest *)
EmplaceLocked(rest, e) ==
  /\ queue' = Append(rest, e)
  /\ highWaterMark' = IF Len(rest) + 1 > highWaterMark
                      THEN Len(rest) + 1 ELSE highWaterMark

Refuse(p) ==
  /\ Finish(p, "idle", "Closed")
  /\ UNCHANGED members

Enqueue(p, v, g) ==
  /\ EmplaceLocked(queue, [value |-> v, generation |-> g])
  /\ Finish(p, "notifyEmpty", "Enqueued")
  /\ UNCHANGED <<capacity, overflowPolicy, droppedCount, closed, generation>>

DropNewest(p) ==
  /\ droppedCount' = droppedCount + 1
  /\ Finish(p, "idle", "DroppedNewest")
  /\ UNCHANGED <<queue, capacity, overflowPolicy, highWaterMark, closed,
                 generation>>

DropOldest(p, v, g) ==
  /\ droppedCount' = droppedCount + 1
  /\ EmplaceLocked(Tail(queue), [value |-> v, generation |-> g])
  /\ Finish(p, "notifyEmpty", "DroppedOldest")
  /\ UNCHANGED <<capacity, overflowPolicy, closed, generation>>

(* notFull_.wait(lock, predicate) and what follows it *)
AwaitRoom(p, v, g) ==
  \/ /\ ~WaitOver(g)
     /\ Finish(p, "notFullWait", "none")
     /\ UNCHANGED members
  \/ WaitOver(g) /\ Rejected(g) /\ Refuse(p)
  \/ WaitOver(g) /\ ~Rejected(g) /\ Enqueue(p, v, g)

PushLocked(p, v, g) ==
  \/ Rejected(g) /\ Refuse(p)
  \/ /\ ~Rejected(g)
     /\ \/ overflowPolicy = "Block" /\ AwaitRoom(p, v, g)
        \/ /\ overflowPolicy # "Block"
           /\ Len(queue) < capacity
           /\ Enqueue(p, v, g)
        \/ /\ overflowPolicy = "DropNewest"
           /\ Len(queue) >= capacity
           /\ DropNewest(p)
        \/ /\ overflowPolicy = "DropOldest"
           /\ Len(queue) >= capacity
           /\ DropOldest(p, v, g)

(* generation(), called to obtain the expectedGeneration of a later push() *)
GetGeneration(p) ==
  /\ pc[p] = "idle"
  /\ expected' = [expected EXCEPT ![p] = generation]
  /\ UNCHANGED <<members, pc, value, method, maxCount, batch, result>>

(* push(expectedGeneration, value) *)
Push(p, v) ==
  /\ pc[p] = "idle"
  /\ value' = [value EXCEPT ![p] = v]
  /\ PushLocked(p, v, expected[p])
  /\ UNCHANGED <<expected, method, maxCount, batch>>

(* push(value): the generation is read under the same lock *)
PushCurrent(p, v) ==
  /\ pc[p] = "idle"
  /\ value' = [value EXCEPT ![p] = v]
  /\ expected' = [expected EXCEPT ![p] = generation]
  /\ PushLocked(p, v, generation)
  /\ UNCHANGED <<method, maxCount, batch>>

(* A producer woken in notFull_.wait() has the mutex again. *)
PushWake(p) ==
  /\ pc[p] = "notFullWoken"
  /\ AwaitRoom(p, value[p], expected[p])
  /\ UNCHANGED <<expected, value, method, maxCount, batch>>

--------------------------------------------------------------------------------
(* pop(), popBatch() and popBatchFor() *)

Ready == closed \/ queue # <<>>

NotifyAfter_AlwaysOne(m) == "notifyFullOne"
NotifyAfter(m) == IF m = "pop" THEN "notifyFullOne" ELSE "notifyFullAll"

(* The wait is over: take up to n elements, or nothing from an empty queue *)
TakeLocked(c, m, n) ==
  LET k == IF Len(queue) < n THEN Len(queue) ELSE n IN
  \/ /\ queue = <<>>
     /\ batch' = [batch EXCEPT ![c] = <<>>]
     /\ Finish(c, "idle", "noValues")
     /\ UNCHANGED members
  \/ /\ queue # <<>>
     /\ batch' = [batch EXCEPT ![c] = SubSeq(queue, 1, k)]
     /\ queue' = SubSeq(queue, k + 1, Len(queue))
     /\ Finish(c, NotifyAfter(m), "values")
     /\ UNCHANGED <<capacity, overflowPolicy, highWaterMark, droppedCount,
                    closed, generation>>

ParkOnNotEmpty(c) ==
  /\ batch' = [batch EXCEPT ![c] = <<>>]
  /\ Finish(c, "notEmptyWait", "none")
  /\ UNCHANGED members

(* maxCount = 0: popBatchImpl returns before it locks the mutex *)
PopNothing(c) ==
  /\ pc[c] = "idle"
  /\ batch' = [batch EXCEPT ![c] = <<>>]
  /\ Finish(c, "idle", "noValues")
  /\ UNCHANGED <<members, expected, value, method, maxCount>>

Pop(c, m, n) ==
  /\ pc[c] = "idle"
  /\ n > 0
  /\ m = "pop" => n = 1
  /\ method' = [method EXCEPT ![c] = m]
  /\ maxCount' = [maxCount EXCEPT ![c] = n]
  /\ \/ Ready /\ TakeLocked(c, m, n)
     \/ ~Ready /\ ParkOnNotEmpty(c)
  /\ UNCHANGED <<expected, value>>

PopWake(c) ==
  /\ pc[c] = "notEmptyWoken"
  /\ \/ Ready /\ TakeLocked(c, method[c], maxCount[c])
     \/ ~Ready /\ ParkOnNotEmpty(c)
  /\ UNCHANGED <<expected, value, method, maxCount>>

(* wait_for() reaches its deadline, and then evaluates the predicate once  *)
(* more under the mutex.                                                   *)
PopTimeout(c) ==
  /\ pc[c] = "notEmptyWait"
  /\ method[c] = "popBatchFor"
  /\ pc' = [pc EXCEPT ![c] = "notEmptyTimedOut"]
  /\ UNCHANGED <<members, expected, value, method, maxCount, batch, result>>

PopTimedOut(c) ==
  /\ pc[c] = "notEmptyTimedOut"
  /\ \/ Ready /\ TakeLocked(c, method[c], maxCount[c])
     \/ /\ ~Ready
        /\ Finish(c, "idle", "noValues")
        /\ UNCHANGED <<members, batch>>
  /\ UNCHANGED <<expected, value, method, maxCount>>

--------------------------------------------------------------------------------
(* Notifications, sent after the mutex was released *)

NotifyOne_Lost(t, S, woken) == pc' = [pc EXCEPT ![t] = "idle"]

(* notify_one: t goes on to state next; one sleeper of S, if any, wakes. *)
NotifyOne(t, S, woken) ==
  \/ S = {} /\ pc' = [pc EXCEPT ![t] = "idle"]
  \/ \E s \in S : pc' = [pc EXCEPT ![t] = "idle", ![s] = woken]

NotifyAll_WakesOne(t, S, woken, next) ==
  \/ S = {} /\ pc' = [pc EXCEPT ![t] = next]
  \/ \E s \in S : pc' = [pc EXCEPT ![t] = next, ![s] = woken]

(* notify_all *)
NotifyAll(t, S, woken, next) ==
  pc' = [u \in Threads |-> IF u = t THEN next
                           ELSE IF u \in S THEN woken ELSE pc[u]]

PushNotify(p) ==
  /\ pc[p] = "notifyEmpty"
  /\ NotifyOne(p, OnNotEmpty, "notEmptyWoken")
  /\ UNCHANGED <<members, expected, value, method, maxCount, batch, result>>

PopNotify(c) ==
  /\ \/ /\ pc[c] = "notifyFullOne"
        /\ NotifyOne(c, OnNotFull, "notFullWoken")
     \/ /\ pc[c] = "notifyFullAll"
        /\ NotifyAll(c, OnNotFull, "notFullWoken", "idle")
  /\ UNCHANGED <<members, expected, value, method, maxCount, batch, result>>

(* The C++ standard lets a wait return without a notification. *)
SpuriousWake(t) ==
  /\ \/ /\ pc[t] = "notFullWait"
        /\ pc' = [pc EXCEPT ![t] = "notFullWoken"]
     \/ /\ pc[t] = "notEmptyWait"
        /\ pc' = [pc EXCEPT ![t] = "notEmptyWoken"]
  /\ UNCHANGED <<members, expected, value, method, maxCount, batch, result>>

--------------------------------------------------------------------------------
(* close() and reset() *)

Close(t) ==
  /\ pc[t] = "idle"
  /\ closed' = TRUE
  /\ pc' = [pc EXCEPT ![t] = "closeEmpty"]
  /\ UNCHANGED <<queue, capacity, overflowPolicy, highWaterMark, droppedCount,
                 generation, expected, value, method, maxCount, batch, result>>

CloseNotify(t) ==
  /\ \/ /\ pc[t] = "closeEmpty"
        /\ NotifyAll(t, OnNotEmpty, "notEmptyWoken", "closeFull")
     \/ /\ pc[t] = "closeFull"
        /\ NotifyAll(t, OnNotFull, "notFullWoken", "idle")
  /\ UNCHANGED <<members, expected, value, method, maxCount, batch, result>>

(* reset() notifies while it still holds the mutex. *)
WakeEverybody ==
  pc' = [u \in Threads |-> IF u \in OnNotFull THEN "notFullWoken"
                           ELSE IF u \in OnNotEmpty THEN "notEmptyWoken"
                           ELSE pc[u]]

CapacityFor_AsGiven(cap) == cap
CapacityFor(cap) == IF cap = 0 THEN 1 ELSE cap

Reset(t, cap, policy) ==
  /\ pc[t] = "idle"
  /\ queue' = <<>>
  /\ capacity' = CapacityFor(cap)
  /\ overflowPolicy' = policy
  /\ highWaterMark' = 0
  /\ droppedCount' = 0
  /\ closed' = FALSE
  /\ generation' = generation + 1
  /\ WakeEverybody
  /\ UNCHANGED <<expected, value, method, maxCount, batch, result>>

--------------------------------------------------------------------------------
(* A queue used by any number of threads, in any order of calls. *)

Init ==
  /\ queue = <<>>
  /\ capacity = SizeMax
  /\ overflowPolicy = "Block"
  /\ highWaterMark = 0
  /\ droppedCount = 0
  /\ closed = FALSE
  /\ generation = 0
  /\ pc = [t \in Threads |-> "idle"]
  /\ expected = [p \in Producers |-> 0]
  /\ value \in [Producers -> Values]
  /\ method = [c \in Consumers |-> "pop"]
  /\ maxCount = [c \in Consumers |-> 1]
  /\ batch = [c \in Consumers |-> <<>>]
  /\ result = [t \in Threads |-> "none"]

(* The steps a call takes by itself once it was made. *)
ProducerStep(p) == PushWake(p) \/ PushNotify(p)
ConsumerStep(c) == PopWake(c) \/ PopTimedOut(c) \/ PopNotify(c)

ProducerCall(p) ==
  \/ GetGeneration(p)
  \/ /\ droppedCount < MaxDropped
     /\ \E v \in Values : Push(p, v) \/ PushCurrent(p, v)

ConsumerCall(c) ==
  \/ PopNothing(c)
  \/ \E m \in PopMethods, n \in 1..MaxBatch : Pop(c, m, n)

ControllerCall(t) ==
  \/ Close(t)
  \/ /\ generation < MaxGeneration
     /\ \/ \E cap \in Capacities, policy \in OverflowPolicies :
             Reset(t, cap, policy)
        \/ Reset(t, SizeMax, "Block")

Next ==
  \/ \E p \in Producers : ProducerCall(p) \/ ProducerStep(p)
  \/ \E c \in Consumers : ConsumerCall(c) \/ ConsumerStep(c) \/ PopTimeout(c)
  \/ \E t \in Controllers : ControllerCall(t)
  \/ \E t \in Threads : CloseNotify(t) \/ SpuriousWake(t)

Spec == Init /\ [][Next]_vars

(* Each thread finishes the calls it made: the scheduler runs it and the   *)
(* mutex is granted in the end, and clocks advance.  Nobody has to call.   *)
Fairness ==
  /\ \A p \in Producers : WF_vars(ProducerStep(p))
  /\ \A c \in Consumers : WF_vars(ConsumerStep(c)) /\ WF_vars(PopTimeout(c))
  /\ \A t \in Threads : WF_vars(CloseNotify(t))

FairSpec == Spec /\ Fairness

--------------------------------------------------------------------------------
(* Safety *)

(* Every member and every thread's call state has the type declared in the *)
(* header, and the batch of a consumer never exceeds what it asked for.    *)
TypeOK ==
  /\ queue \in Seq(Entry)
  /\ capacity \in Nat \ {0}
  /\ overflowPolicy \in OverflowPolicies
  /\ highWaterMark \in Nat
  /\ droppedCount \in Nat
  /\ closed \in BOOLEAN
  /\ generation \in Nat
  /\ pc \in [Threads -> States]
  /\ expected \in [Producers -> Nat]
  /\ value \in [Producers -> Values]
  /\ method \in [Consumers -> PopMethods]
  /\ maxCount \in [Consumers -> Nat \ {0}]
  /\ batch \in [Consumers -> Seq(Entry)]
  /\ result \in [Threads -> Results]

(* The queue never outgrows its capacity, whoever was woken for how many   *)
(* free places, and peakSize() covers the present length.                  *)
CapacityBound == Len(queue) <= highWaterMark /\ highWaterMark <= capacity

(* "a producer from an old lifecycle is rejected": after reset() no element *)
(* of a push() that was given an earlier generation is ever in the queue,  *)
(* although that push() may have slept in notFull_ across close() and      *)
(* reset() or may start only after them.                                   *)
GenerationIsolation ==
  \A i \in 1..Len(queue) : queue[i].generation = generation

(* close() and reset() leave nobody asleep: while the queue is closed,     *)
(* threads sleep only if the notify_all of a close() is still to come, and *)
(* no producer sleeps with a generation that reset() has made stale.       *)
NoMissedClose ==
  /\ closed /\ OnNotFull # {} =>
       \E t \in Threads : pc[t] \in {"closeEmpty", "closeFull"}
  /\ closed /\ OnNotEmpty # {} => \E t \in Threads : pc[t] = "closeEmpty"
  /\ \A p \in OnNotFull : expected[p] = generation

(* No wakeup is lost to the gap between unlock() and notify_one(), to a    *)
(* thread that overtakes the one woken, or to a timeout: while someone     *)
(* sleeps on an open queue, the free places (the elements) are covered by  *)
(* threads awake for them and by notifications still to be sent.           *)
FreePlaces == IF Len(queue) < capacity THEN capacity - Len(queue) ELSE 0

AwakeForPlace ==
  {t \in Threads : \/ pc[t] = "notifyFullOne"
                   \/ /\ pc[t] = "notFullWoken"
                      /\ expected[t] = generation}

AwakeForElement ==
  {t \in Threads :
     pc[t] \in {"notifyEmpty", "notEmptyWoken", "notEmptyTimedOut"}}

NoLostWakeup ==
  ~closed =>
    /\ \/ OnNotFull = {}
       \/ \E t \in Threads : pc[t] = "notifyFullAll"
       \/ FreePlaces <= Cardinality(AwakeForPlace)
    /\ OnNotEmpty = {} \/ Len(queue) <= Cardinality(AwakeForElement)

--------------------------------------------------------------------------------
(* Liveness *)

(* A producer inside push() when the queue closes returns Closed, even if  *)
(* reset() reopens the queue before the producer runs again: the           *)
(* generation remembers the close() that closed_ has forgotten.            *)
CloseReleasesProducers ==
  \A p \in Producers :
    (closed /\ pc[p] \in NotFullStates)
      ~> (pc[p] = "idle" /\ result[p] = "Closed")

(* No producer stays asleep from some moment on while there is room.       *)
BlockedProducerServed ==
  \A p \in Producers :
    []<>~(pc[p] \in NotFullStates /\ WaitOver(expected[p]))

(* No consumer stays asleep from some moment on while elements wait or the *)
(* queue is closed.                                                        *)
BlockedConsumerServed ==
  \A c \in Consumers : []<>~(pc[c] \in NotEmptyStates /\ Ready)
================================================================================

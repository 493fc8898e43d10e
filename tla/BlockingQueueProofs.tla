-------------------------- MODULE BlockingQueueProofs --------------------------
(***************************************************************************)
(* Proofs about BlockingQueue for any number of threads, any element type, *)
(* any capacities and any bounds.                                          *)
(***************************************************************************)
EXTENDS BlockingQueue, SequenceTheorems, FiniteSetTheorems, TLAPS

--------------------------------------------------------------------------------
(* Type correctness *)

(* A thread goes on to any state of a call and returns any result.         *)
LEMMA FinishType ==
  ASSUME pc \in [Threads -> States], result \in [Threads -> Results],
         NEW t, NEW s \in States, NEW r \in Results, Finish(t, s, r)
  PROVE  pc' \in [Threads -> States] /\ result' \in [Threads -> Results]
BY DEF Finish

(* A push() that waits, is refused or enqueues keeps the members and the   *)
(* producer's call state well typed.                                       *)
LEMMA AwaitRoomType ==
  ASSUME TypeOK, NEW p \in Producers, NEW v \in Values, NEW g \in Nat,
         \/ Refuse(p)
         \/ Enqueue(p, v, g)
         \/ Finish(p, "notFullWait", "none") /\ UNCHANGED members
  PROVE  /\ queue' \in Seq(Entry)
         /\ UNCHANGED <<capacity, overflowPolicy, closed, generation>>
         /\ highWaterMark' \in Nat /\ droppedCount' \in Nat
         /\ pc' \in [Threads -> States] /\ result' \in [Threads -> Results]
<1> USE DEF TypeOK
<1>1. CASE Refuse(p)
  BY <1>1, FinishType DEF Refuse, members, States, Results
<1>2. CASE Enqueue(p, v, g)
  <2>1. [value |-> v, generation |-> g] \in Entry
    BY DEF Entry
  <2>2. queue' \in Seq(Entry) /\ highWaterMark' \in Nat
    BY <1>2, <2>1 DEF Enqueue, EmplaceLocked
  <2> QED
    BY <1>2, <2>2, FinishType DEF Enqueue, States, Results
<1>3. CASE Finish(p, "notFullWait", "none") /\ UNCHANGED members
  BY <1>3, FinishType DEF members, States, NotFullStates, Results
<1> QED
  BY <1>1, <1>2, <1>3

(* The same for all of push(), the drop policies included.                 *)
LEMMA PushLockedType ==
  ASSUME TypeOK, NEW p \in Producers, NEW v \in Values, NEW g \in Nat,
         PushLocked(p, v, g)
  PROVE  /\ queue' \in Seq(Entry)
         /\ UNCHANGED <<capacity, overflowPolicy, closed, generation>>
         /\ highWaterMark' \in Nat /\ droppedCount' \in Nat
         /\ pc' \in [Threads -> States] /\ result' \in [Threads -> Results]
<1> USE DEF TypeOK
<1>1. CASE DropNewest(p)
  BY <1>1, FinishType DEF DropNewest, States, Results
<1>2. CASE DropOldest(p, v, g) /\ Len(queue) >= capacity
  <2>1. [value |-> v, generation |-> g] \in Entry
    BY DEF Entry
  <2>2. Tail(queue) \in Seq(Entry)
    BY <1>2, HeadTailProperties
  <2>3. queue' \in Seq(Entry) /\ highWaterMark' \in Nat
    BY <1>2, <2>1, <2>2 DEF DropOldest, EmplaceLocked
  <2> QED
    BY <1>2, <2>3, FinishType DEF DropOldest, States, Results
<1>3. CASE \/ Refuse(p)
           \/ Enqueue(p, v, g)
           \/ Finish(p, "notFullWait", "none") /\ UNCHANGED members
  BY <1>3, AwaitRoomType
<1> QED
  BY <1>1, <1>2, <1>3 DEF PushLocked, AwaitRoom

(* A consumer whose wait is over splits the queue: what it takes and what  *)
(* it leaves are sequences of elements, and it leaves no more than was.    *)
LEMMA TakeLockedType ==
  ASSUME TypeOK, NEW c \in Consumers, NEW m \in PopMethods,
         NEW n \in Nat \ {0}, TakeLocked(c, m, n)
  PROVE  /\ queue' \in Seq(Entry) /\ Len(queue') <= Len(queue)
         /\ \A i \in 1..Len(queue') : \E j \in 1..Len(queue) :
              queue'[i] = queue[j]
         /\ UNCHANGED <<capacity, overflowPolicy, highWaterMark, droppedCount,
                        closed, generation>>
         /\ batch' \in [Consumers -> Seq(Entry)]
         /\ pc' \in [Threads -> States] /\ result' \in [Threads -> Results]
<1> DEFINE k == IF Len(queue) < n THEN Len(queue) ELSE n
<1>1. CASE queue = <<>>
  <2>1. queue' = <<>> /\ batch' = [batch EXCEPT ![c] = <<>>]
    BY <1>1 DEF TakeLocked, members
  <2>2. UNCHANGED members /\ Finish(c, "idle", "noValues")
    BY <1>1 DEF TakeLocked
  <2>3. pc' \in [Threads -> States] /\ result' \in [Threads -> Results]
    BY <2>2, FinishType DEF TypeOK, States, Results
  <2> QED
    BY <1>1, <2>1, <2>2, <2>3 DEF TypeOK, members
<1>2. CASE queue # <<>>
  <2>1. /\ batch' = [batch EXCEPT ![c] = SubSeq(queue, 1, k)]
        /\ queue' = SubSeq(queue, k + 1, Len(queue))
        /\ Finish(c, NotifyAfter(m), "values")
        /\ UNCHANGED <<capacity, overflowPolicy, highWaterMark, droppedCount,
                       closed, generation>>
    BY <1>2 DEF TakeLocked
  <2>2. k \in Nat /\ Len(queue) \in Nat /\ k <= Len(queue)
    BY DEF TypeOK
  <2>3. \A i \in 1..Len(queue) : queue[i] \in Entry
    BY DEF TypeOK
  <2>4. SubSeq(queue, 1, k) \in Seq(Entry)
    BY <2>2, <2>3, SubSeqProperties
  <2>5. /\ queue' \in Seq(Entry)
        /\ Len(queue') = IF k + 1 <= Len(queue) THEN Len(queue) - k ELSE 0
        /\ \A i \in 1..Len(queue) - k : queue'[i] = queue[k + i]
    BY <2>1, <2>2, <2>3, SubSeqProperties
  <2>6. pc' \in [Threads -> States] /\ result' \in [Threads -> Results]
    BY <2>1, FinishType DEF TypeOK, NotifyAfter, States, Results
  <2>7. batch' \in [Consumers -> Seq(Entry)]
    BY <2>1, <2>4 DEF TypeOK
  <2> HIDE DEF k
  <2>8. /\ Len(queue') = Len(queue) - k
        /\ \A i \in 1..Len(queue') : k + i \in 1..Len(queue)
    BY <2>2, <2>5
  <2> QED
    BY <2>1, <2>2, <2>5, <2>6, <2>7, <2>8
<1> QED
  BY <1>1, <1>2
(* Going to sleep in notEmpty_ leaves the members as they are.             *)
LEMMA ParkType ==
  ASSUME TypeOK, NEW c \in Consumers, ParkOnNotEmpty(c)
  PROVE  /\ UNCHANGED members
         /\ batch' \in [Consumers -> Seq(Entry)]
         /\ pc' \in [Threads -> States] /\ result' \in [Threads -> Results]
<1>1. batch' \in [Consumers -> Seq(Entry)]
  BY DEF TypeOK, ParkOnNotEmpty
<1>2. pc' \in [Threads -> States] /\ result' \in [Threads -> Results]
  BY FinishType DEF TypeOK, ParkOnNotEmpty, States, NotEmptyStates, Results
<1> QED
  BY <1>1, <1>2 DEF ParkOnNotEmpty

(* The initial values of the members and of the calls have their types.    *)
LEMMA InitType == Init => TypeOK
<1> SUFFICES ASSUME Init PROVE TypeOK
  OBVIOUS
<1>1. queue \in Seq(Entry) /\ batch \in [Consumers -> Seq(Entry)]
  BY DEF Init
<1>2. /\ capacity \in Nat \ {0} /\ overflowPolicy \in OverflowPolicies
      /\ highWaterMark \in Nat /\ droppedCount \in Nat
      /\ closed \in BOOLEAN /\ generation \in Nat
  BY SizeAssumption DEF Init, OverflowPolicies
<1>3. pc \in [Threads -> States] /\ result \in [Threads -> Results]
  BY DEF Init, States, Results
<1>4. /\ expected \in [Producers -> Nat] /\ value \in [Producers -> Values]
      /\ method \in [Consumers -> PopMethods]
      /\ maxCount \in [Consumers -> Nat \ {0}]
  BY DEF Init, PopMethods
<1> QED
  BY <1>1, <1>2, <1>3, <1>4 DEF TypeOK

(* Every step keeps the types.                                             *)
LEMMA NextType == TypeOK /\ [Next]_vars => TypeOK'
<1> SUFFICES ASSUME TypeOK, [Next]_vars PROVE TypeOK'
  OBVIOUS
<1> USE DEF TypeOK
<1>1. ASSUME NEW p \in Producers, GetGeneration(p) PROVE TypeOK'
  BY <1>1 DEF GetGeneration, members
<1>2. ASSUME NEW p \in Producers, NEW v \in Values, Push(p, v) PROVE TypeOK'
  BY <1>2, PushLockedType DEF Push
<1>3. ASSUME NEW p \in Producers, NEW v \in Values, PushCurrent(p, v)
      PROVE TypeOK'
  BY <1>3, PushLockedType DEF PushCurrent
<1>4. ASSUME NEW p \in Producers, PushWake(p) PROVE TypeOK'
  <2>1. AwaitRoom(p, value[p], expected[p])
    BY <1>4 DEF PushWake
  <2> QED
    BY <1>4, <2>1, AwaitRoomType DEF PushWake, AwaitRoom
<1>5. ASSUME NEW p \in Producers, PushNotify(p) PROVE TypeOK'
  BY <1>5 DEF PushNotify, NotifyOne, members, States, NotEmptyStates
<1>6. ASSUME NEW c \in Consumers, PopNothing(c) PROVE TypeOK'
  <2>1. batch' \in [Consumers -> Seq(Entry)]
    BY <1>6 DEF PopNothing
  <2>2. pc' \in [Threads -> States] /\ result' \in [Threads -> Results]
    BY <1>6, FinishType DEF PopNothing, States, Results
  <2> QED
    BY <1>6, <2>1, <2>2 DEF PopNothing, members
<1>7. ASSUME NEW c \in Consumers, NEW m \in PopMethods, NEW n \in 1..MaxBatch,
             Pop(c, m, n)
      PROVE TypeOK'
  <2>1. n \in Nat \ {0}
    BY SizeAssumption
  <2>2. TakeLocked(c, m, n) \/ ParkOnNotEmpty(c)
    BY <1>7 DEF Pop
  <2>3. method' \in [Consumers -> PopMethods] /\
        maxCount' \in [Consumers -> Nat \ {0}]
    BY <1>7, <2>1 DEF Pop
  <2> QED
    BY <1>7, <2>1, <2>2, <2>3, TakeLockedType, ParkType DEF Pop, members
<1>8. ASSUME NEW c \in Consumers, PopWake(c) PROVE TypeOK'
  <2>1. TakeLocked(c, method[c], maxCount[c]) \/ ParkOnNotEmpty(c)
    BY <1>8 DEF PopWake
  <2> QED
    BY <1>8, <2>1, TakeLockedType, ParkType DEF PopWake, members
<1>9. ASSUME NEW c \in Consumers, PopTimeout(c) PROVE TypeOK'
  BY <1>9 DEF PopTimeout, members, States, NotEmptyStates
<1>10. ASSUME NEW c \in Consumers, PopTimedOut(c) PROVE TypeOK'
  <2>1. CASE TakeLocked(c, method[c], maxCount[c])
    BY <1>10, <2>1, TakeLockedType DEF PopTimedOut
  <2>2. CASE Finish(c, "idle", "noValues") /\ UNCHANGED <<members, batch>>
    BY <1>10, <2>2, FinishType DEF PopTimedOut, members, States, Results
  <2> QED
    BY <1>10, <2>1, <2>2 DEF PopTimedOut
<1>11. ASSUME NEW c \in Consumers, PopNotify(c) PROVE TypeOK'
  BY <1>11
  DEF PopNotify, NotifyOne, NotifyAll, members, States, NotFullStates
<1>12. ASSUME NEW t \in Threads, Close(t) PROVE TypeOK'
  BY <1>12 DEF Close, States
<1>13. ASSUME NEW t \in Threads, CloseNotify(t) PROVE TypeOK'
  BY <1>13
  DEF CloseNotify, NotifyAll, members, States, NotFullStates, NotEmptyStates
<1>14. ASSUME NEW t \in Threads, NEW cap \in Nat,
              NEW policy \in OverflowPolicies, Reset(t, cap, policy)
       PROVE TypeOK'
  <2>1. pc' \in [Threads -> States]
    BY <1>14 DEF Reset, WakeEverybody, States, NotFullStates, NotEmptyStates
  <2>2. capacity' \in Nat \ {0} /\ queue' \in Seq(Entry)
    BY <1>14 DEF Reset, CapacityFor
  <2>3. closed' \in BOOLEAN
    BY <1>14 DEF Reset
  <2>4. generation' \in Nat /\ overflowPolicy' \in OverflowPolicies
    BY <1>14 DEF Reset
  <2> QED
    BY <1>14, <2>1, <2>2, <2>3, <2>4 DEF Reset
<1>15. ASSUME NEW t \in Threads, SpuriousWake(t) PROVE TypeOK'
  BY <1>15
  DEF SpuriousWake, members, States, NotFullStates, NotEmptyStates
<1>16. CASE UNCHANGED vars
  BY <1>16 DEF vars, members
<1> HIDE DEF TypeOK
<1>17. ASSUME NEW t \in Controllers, ControllerCall(t) PROVE TypeOK'
  <2>1. t \in Threads /\ "Block" \in OverflowPolicies
    BY DEF Threads, OverflowPolicies
  <2> QED
    BY <1>12, <1>14, <1>17, <2>1, SizeAssumption DEF ControllerCall
<1> QED
  BY <1>1, <1>2, <1>3, <1>4, <1>5, <1>6, <1>7, <1>8, <1>9, <1>10, <1>11,
     <1>13, <1>15, <1>16, <1>17
  DEF Next, ProducerCall, ProducerStep, ConsumerCall, ConsumerStep

(* Every member and every thread's call state keeps its type, whatever the *)
(* threads do and in whatever order.                                       *)
THEOREM TypeCorrect == Spec => []TypeOK
BY InitType, NextType, PTL DEF Spec
--------------------------------------------------------------------------------
(* The contents of the queue *)

(* What a step may do to the contents: nothing, append an element of the   *)
(* present generation where there is room, replace the oldest by such an   *)
(* element, remove elements, or start empty.                               *)
Untouched == UNCHANGED <<queue, capacity, highWaterMark, generation>>

Appended(e) ==
  /\ e \in Entry /\ e.generation = generation
  /\ Len(queue) < capacity
  /\ EmplaceLocked(queue, e)
  /\ UNCHANGED <<capacity, generation>>

Replaced(e) ==
  /\ e \in Entry /\ e.generation = generation
  /\ Len(queue) >= capacity
  /\ EmplaceLocked(Tail(queue), e)
  /\ UNCHANGED <<capacity, generation>>

Shortened ==
  /\ Len(queue') <= Len(queue)
  /\ \A i \in 1..Len(queue') : \E j \in 1..Len(queue) : queue'[i] = queue[j]
  /\ UNCHANGED <<capacity, highWaterMark, generation>>

Restarted == queue' = <<>> /\ highWaterMark' = 0 /\ capacity' \in Nat \ {0}

ContentsStep ==
  \/ Untouched
  \/ \E e \in Entry : Appended(e) \/ Replaced(e)
  \/ Shortened
  \/ Restarted

(* An element enters the queue only where the checks of pushLocked() let   *)
(* it: the waiting producer has just seen its generation and a free place. *)
LEMMA PushContents ==
  ASSUME TypeOK, NEW p \in Producers, NEW v \in Values, NEW g \in Nat,
         PushLocked(p, v, g) \/ AwaitRoom(p, v, g)
  PROVE  ContentsStep
<1> DEFINE e == [value |-> v, generation |-> g]
<1>1. e \in Entry /\ e.generation = g
  BY DEF Entry
<1>2. CASE Refuse(p) \/ DropNewest(p) \/ UNCHANGED members
  BY <1>2 DEF Refuse, DropNewest, members, ContentsStep, Untouched
<1>3. CASE g = generation /\ Len(queue) < capacity /\ Enqueue(p, v, g)
  BY <1>1, <1>3 DEF Enqueue, Appended, ContentsStep
<1>4. CASE g = generation /\ Len(queue) >= capacity /\ DropOldest(p, v, g)
  BY <1>1, <1>4 DEF DropOldest, Replaced, ContentsStep
<1>5. Rejected(g) \/ g = generation
  BY DEF Rejected
<1>6. WaitOver(g) => Rejected(g) \/ Len(queue) < capacity
  BY DEF WaitOver, Rejected
<1> QED
  BY <1>2, <1>3, <1>4, <1>5, <1>6 DEF PushLocked, AwaitRoom

(* Every step of the program does one of those five things.                *)
LEMMA NextContents == TypeOK /\ [Next]_vars => ContentsStep
<1> SUFFICES ASSUME TypeOK, [Next]_vars PROVE ContentsStep
  OBVIOUS
<1>1. ASSUME NEW p \in Producers, ProducerCall(p) \/ ProducerStep(p)
      PROVE ContentsStep
  <2>1. CASE GetGeneration(p) \/ PushNotify(p)
    BY <2>1
    DEF GetGeneration, PushNotify, members, ContentsStep, Untouched
  <2>2. ASSUME NEW v \in Values, Push(p, v) \/ PushCurrent(p, v)
        PROVE ContentsStep
    BY <2>2, PushContents DEF Push, PushCurrent, TypeOK
  <2>3. CASE PushWake(p)
    BY <2>3, PushContents DEF PushWake, TypeOK
  <2> QED
    BY <1>1, <2>1, <2>2, <2>3 DEF ProducerCall, ProducerStep
<1>2. ASSUME NEW c \in Consumers,
             ConsumerCall(c) \/ ConsumerStep(c) \/ PopTimeout(c)
      PROVE ContentsStep
  <2>1. ASSUME NEW m \in PopMethods, NEW n \in Nat \ {0}, TakeLocked(c, m, n)
        PROVE ContentsStep
    BY <2>1, TakeLockedType DEF ContentsStep, Shortened
  <2>2. CASE UNCHANGED members
    BY <2>2 DEF members, ContentsStep, Untouched
  <2>3. ASSUME NEW m \in PopMethods, NEW n \in 1..MaxBatch, Pop(c, m, n)
        PROVE ContentsStep
    <3>1. n \in Nat \ {0}
      BY SizeAssumption
    <3> QED
      BY <2>1, <2>2, <2>3, <3>1 DEF Pop, ParkOnNotEmpty
  <2>4. method[c] \in PopMethods /\ maxCount[c] \in Nat \ {0}
    BY DEF TypeOK
  <2>5. CASE PopWake(c) \/ PopTimedOut(c)
    BY <2>1, <2>2, <2>4, <2>5 DEF PopWake, PopTimedOut, ParkOnNotEmpty
  <2>6. CASE PopNothing(c) \/ PopTimeout(c) \/ PopNotify(c)
    BY <2>2, <2>6 DEF PopNothing, PopTimeout, PopNotify
  <2> QED
    BY <1>2, <2>3, <2>5, <2>6 DEF ConsumerCall, ConsumerStep
<1>3. ASSUME NEW t \in Controllers, ControllerCall(t) PROVE ContentsStep
  <2>1. CASE Close(t)
    BY <2>1 DEF Close, ContentsStep, Untouched
  <2>2. ASSUME NEW cap \in Nat, NEW policy, Reset(t, cap, policy)
        PROVE ContentsStep
    BY <2>2 DEF Reset, CapacityFor, ContentsStep, Restarted
  <2> QED
    BY <1>3, <2>1, <2>2, SizeAssumption DEF ControllerCall
<1>4. ASSUME NEW t \in Threads, CloseNotify(t) \/ SpuriousWake(t)
      PROVE ContentsStep
  BY <1>4 DEF CloseNotify, SpuriousWake, members, ContentsStep, Untouched
<1>5. CASE UNCHANGED vars
  BY <1>5 DEF vars, members, ContentsStep, Untouched
<1> QED
  BY <1>1, <1>2, <1>3, <1>4, <1>5 DEF Next

(* Such a step does not let the queue outgrow its capacity.                *)
LEMMA ContentsBound ==
  ASSUME TypeOK, TypeOK', CapacityBound, ContentsStep
  PROVE  CapacityBound'
<1> USE DEF TypeOK, CapacityBound
<1>1. CASE Untouched
  BY <1>1 DEF Untouched
<1>2. ASSUME NEW e \in Entry, Appended(e) PROVE CapacityBound'
  <2>1. Len(queue') = Len(queue) + 1
    BY <1>2 DEF Appended, EmplaceLocked
  <2> QED
    BY <1>2, <2>1 DEF Appended, EmplaceLocked
<1>3. ASSUME NEW e \in Entry, Replaced(e) PROVE CapacityBound'
  <2>1. queue # <<>>
    BY <1>3 DEF Replaced
  <2>2. Tail(queue) \in Seq(Entry) /\ Len(Tail(queue)) = Len(queue) - 1
    BY <2>1, HeadTailProperties
  <2>3. Len(queue') = Len(queue)
    BY <1>3, <2>2 DEF Replaced, EmplaceLocked
  <2> QED
    BY <1>3, <2>2, <2>3 DEF Replaced, EmplaceLocked
<1>4. CASE Shortened
  BY <1>4 DEF Shortened
<1>5. CASE Restarted
  BY <1>5 DEF Restarted
<1> QED
  BY <1>1, <1>2, <1>3, <1>4, <1>5 DEF ContentsStep

(* Such a step lets no element of another generation into the queue.       *)
LEMMA ContentsIsolation ==
  ASSUME TypeOK, TypeOK', GenerationIsolation, ContentsStep
  PROVE  GenerationIsolation'
<1> USE DEF TypeOK, GenerationIsolation
<1>1. CASE Untouched
  BY <1>1 DEF Untouched
<1>2. ASSUME NEW e \in Entry, Appended(e) PROVE GenerationIsolation'
  <2>1. queue' = Append(queue, e) /\ generation' = generation
    BY <1>2 DEF Appended, EmplaceLocked
  <2>2. /\ Len(queue') = Len(queue) + 1
        /\ \A i \in 1..Len(queue) : queue'[i] = queue[i]
        /\ queue'[Len(queue) + 1] = e
    BY <2>1, AppendProperties
  <2>3. e.generation = generation
    BY <1>2 DEF Appended
  <2> QED
    BY <2>1, <2>2, <2>3
<1>3. ASSUME NEW e \in Entry, Replaced(e) PROVE GenerationIsolation'
  <2>1. queue # <<>>
    BY <1>3 DEF Replaced
  <2>2. /\ Tail(queue) \in Seq(Entry)
        /\ \A i \in 1..Len(Tail(queue)) :
             i + 1 \in 1..Len(queue) /\ Tail(queue)[i] = queue[i + 1]
    BY <2>1, HeadTailProperties
  <2>3. queue' = Append(Tail(queue), e) /\ generation' = generation
    BY <1>3 DEF Replaced, EmplaceLocked
  <2> QED
    BY <1>3, <2>2, <2>3, AppendProperties DEF Replaced
<1>4. CASE Shortened
  BY <1>4 DEF Shortened
<1>5. CASE Restarted
  BY <1>5 DEF Restarted
<1> QED
  BY <1>1, <1>2, <1>3, <1>4, <1>5 DEF ContentsStep

(* The length never exceeds the high-water mark, nor that the capacity.    *)
THEOREM CapacityCorrect == Spec => []CapacityBound
<1>1. Init => CapacityBound
  BY SizeAssumption DEF Init, CapacityBound
<1>2. TypeOK /\ TypeOK' /\ CapacityBound /\ [Next]_vars => CapacityBound'
  BY NextContents, ContentsBound
<1> QED
  BY <1>1, <1>2, TypeCorrect, PTL DEF Spec

(* No element of a push() given an earlier generation is ever in the queue *)
(* after a reset(), with any number of producers asleep across it.         *)
THEOREM IsolationCorrect == Spec => []GenerationIsolation
<1>1. Init => GenerationIsolation
  BY DEF Init, GenerationIsolation
<1>2. TypeOK /\ TypeOK' /\ GenerationIsolation /\ [Next]_vars
        => GenerationIsolation'
  BY NextContents, ContentsIsolation
<1> QED
  BY <1>1, <1>2, TypeCorrect, PTL DEF Spec
--------------------------------------------------------------------------------
(* Nobody sleeps through a close() or a reset() *)

(* NoMissedClose speaks of the expectedGeneration of a sleeper in notFull_ *)
(* and is inductive only if the sleeper is known to have one.              *)
SleepersPush == \A t \in Threads : pc[t] \in NotFullStates => t \in Producers

IInv == NoMissedClose /\ SleepersPush

ClosingStates == {"closeEmpty", "closeFull"}

(* A thread that is not in close() takes one of its own steps: it may fall *)
(* asleep, but only where its predicate says so.                           *)
OwnStep(t, s) ==
  /\ pc' = [pc EXCEPT ![t] = s]
  /\ pc[t] \notin ClosingStates
  /\ closed' = closed /\ generation' = generation
  /\ s \notin {"closeEmpty", "closeFull", "notFullWoken"}
  /\ s = "notFullWait" =>
       t \in Producers /\ ~closed /\ expected'[t] = generation
  /\ s = "notEmptyWait" => ~closed
  /\ \A p \in Producers : p # t => expected'[p] = expected[p]

(* Such a step keeps the invariant.                                        *)
LEMMA OwnStepKeeps ==
  ASSUME TypeOK, IInv, NEW t \in Threads, NEW s, OwnStep(t, s)
  PROVE  IInv'
<1> USE DEF TypeOK, IInv, OwnStep
<1>1. \A u \in Threads : pc'[u] = IF u = t THEN s ELSE pc[u]
  OBVIOUS
<1>2. \A u \in Threads : pc[u] \in ClosingStates => pc'[u] = pc[u]
  BY <1>1
<1>3. closed' /\ OnNotFull' # {} =>
        \E u \in Threads : pc'[u] \in ClosingStates
  <2> SUFFICES ASSUME closed', NEW w \in Threads, pc'[w] = "notFullWait"
               PROVE  \E u \in Threads : pc'[u] \in ClosingStates
    BY DEF OnNotFull
  <2>1. w # t
    BY <1>1
  <2>2. w \in OnNotFull
    BY <1>1, <2>1 DEF OnNotFull
  <2> QED
    BY <1>2, <2>2 DEF NoMissedClose, ClosingStates
<1>4. closed' /\ OnNotEmpty' # {} =>
        \E u \in Threads : pc'[u] = "closeEmpty"
  <2> SUFFICES ASSUME closed', NEW w \in Threads, pc'[w] = "notEmptyWait"
               PROVE  \E u \in Threads : pc'[u] = "closeEmpty"
    BY DEF OnNotEmpty
  <2>1. w # t
    BY <1>1
  <2>2. w \in OnNotEmpty
    BY <1>1, <2>1 DEF OnNotEmpty
  <2> QED
    BY <1>2, <2>2 DEF NoMissedClose, ClosingStates
<1>5. SleepersPush'
  BY <1>1 DEF SleepersPush, NotFullStates
<1>6. \A p \in OnNotFull' : expected'[p] = generation'
  <2> SUFFICES ASSUME NEW p \in Threads, pc'[p] = "notFullWait"
               PROVE  expected'[p] = generation
    BY DEF OnNotFull
  <2>1. CASE p = t
    BY <1>1, <2>1
  <2>2. CASE p # t
    BY <1>1, <2>2 DEF OnNotFull, NoMissedClose, SleepersPush, NotFullStates
  <2> QED
    BY <2>1, <2>2
<1> QED
  BY <1>3, <1>4, <1>5, <1>6 DEF NoMissedClose, ClosingStates

(* Threads only wake up, or go back to idle from outside close().          *)
WakingStep ==
  /\ \A u \in Threads : /\ pc[u] \in ClosingStates => pc'[u] = pc[u]
                        /\ pc'[u] = "notFullWait" => pc[u] = "notFullWait"
                        /\ pc'[u] = "notEmptyWait" => pc[u] = "notEmptyWait"
                        /\ pc'[u] = "notFullWoken" => pc[u] \in NotFullStates
  /\ closed' = closed /\ generation' = generation /\ expected' = expected

(* Such a step keeps the invariant, too.                                   *)
LEMMA WakingKeeps ==
  ASSUME TypeOK, IInv, WakingStep
  PROVE  IInv'
<1> USE DEF IInv, WakingStep
<1>1. OnNotFull' \subseteq OnNotFull /\ OnNotEmpty' \subseteq OnNotEmpty
  BY DEF OnNotFull, OnNotEmpty
<1>2. \A u \in Threads : pc[u] \in ClosingStates => pc'[u] = pc[u]
  OBVIOUS
<1>3. NoMissedClose'
  BY <1>1, <1>2 DEF NoMissedClose, ClosingStates
<1>4. SleepersPush'
  BY DEF SleepersPush, NotFullStates
<1> QED
  BY <1>3, <1>4

(* The steps of push(): asleep only where close() and reset() have not     *)
(* been, with the generation that is current.                              *)
LEMMA PushKeeps ==
  ASSUME TypeOK, IInv, NEW p \in Producers, ProducerCall(p) \/ ProducerStep(p)
  PROVE  IInv'
<1> USE DEF TypeOK
<1>1. p \in Threads
  BY DEF Threads
<1>2. ASSUME NEW v, NEW g,
             pc[p] \notin ClosingStates,
             PushLocked(p, v, g) \/ AwaitRoom(p, v, g),
             expected'[p] = g, expected' = [expected EXCEPT ![p] = g]
      PROVE  IInv'
  <2>1. CASE Refuse(p) \/ DropNewest(p)
    <3>1. OwnStep(p, "idle")
      BY <1>2, <2>1 DEF Refuse, DropNewest, Finish, members, OwnStep
    <3> QED
      BY <1>1, <3>1, OwnStepKeeps
  <2>2. CASE Enqueue(p, v, g) \/ DropOldest(p, v, g)
    <3>1. OwnStep(p, "notifyEmpty")
      BY <1>2, <2>2 DEF Enqueue, DropOldest, Finish, OwnStep
    <3> QED
      BY <1>1, <3>1, OwnStepKeeps
  <2>3. CASE /\ ~WaitOver(g)
             /\ Finish(p, "notFullWait", "none")
             /\ UNCHANGED members
    <3>1. OwnStep(p, "notFullWait")
      BY <1>2, <2>3 DEF WaitOver, Finish, members, OwnStep
    <3> QED
      BY <1>1, <3>1, OwnStepKeeps
  <2> QED
    BY <1>2, <2>1, <2>2, <2>3 DEF PushLocked, AwaitRoom
<1>3. CASE GetGeneration(p)
  <2>1. OwnStep(p, "idle")
    BY <1>1, <1>3 DEF GetGeneration, members, OwnStep, ClosingStates
  <2> QED
    BY <1>1, <2>1, OwnStepKeeps
<1>4. ASSUME NEW v \in Values, Push(p, v) PROVE IInv'
  <2>1. expected' = [expected EXCEPT ![p] = expected[p]]
    BY <1>4 DEF Push
  <2> QED
    BY <1>2, <1>4, <2>1 DEF Push, ClosingStates
<1>5. ASSUME NEW v \in Values, PushCurrent(p, v) PROVE IInv'
  BY <1>2, <1>5 DEF PushCurrent, ClosingStates
<1>6. CASE PushWake(p)
  <2>1. expected' = [expected EXCEPT ![p] = expected[p]]
    BY <1>6 DEF PushWake
  <2> QED
    BY <1>2, <1>6, <2>1 DEF PushWake, ClosingStates
<1>7. CASE PushNotify(p)
  <2>1. PICK w \in {p} \cup OnNotEmpty :
          \A u \in Threads : pc'[u] = IF u = p THEN "idle"
                                      ELSE IF u = w THEN "notEmptyWoken"
                                      ELSE pc[u]
    BY <1>1, <1>7 DEF PushNotify, NotifyOne, OnNotEmpty
  <2>2. WakingStep
    BY <1>7, <2>1
    DEF PushNotify, OnNotEmpty, members, WakingStep, ClosingStates,
        NotFullStates
  <2> QED
    BY <2>2, WakingKeeps
<1> QED
  BY <1>3, <1>4, <1>5, <1>6, <1>7 DEF ProducerCall, ProducerStep

(* The steps of the pop functions: asleep only on an open queue.           *)
LEMMA PopKeeps ==
  ASSUME TypeOK, IInv, NEW c \in Consumers,
         ConsumerCall(c) \/ ConsumerStep(c) \/ PopTimeout(c)
  PROVE  IInv'
<1> USE DEF TypeOK
<1>1. c \in Threads
  BY DEF Threads
<1>2. ASSUME NEW m, NEW n, pc[c] \notin ClosingStates, expected' = expected,
             \/ Ready /\ TakeLocked(c, m, n)
             \/ ~Ready /\ ParkOnNotEmpty(c)
      PROVE  IInv'
  <2>1. CASE TakeLocked(c, m, n)
    <3>1. PICK s \in {"idle", "notifyFullOne", "notifyFullAll"} :
            pc' = [pc EXCEPT ![c] = s]
      BY <2>1 DEF TakeLocked, Finish, NotifyAfter
    <3>2. closed' = closed /\ generation' = generation
      BY <2>1 DEF TakeLocked, members
    <3>3. OwnStep(c, s)
      BY <1>2, <3>1, <3>2 DEF OwnStep
    <3> QED
      BY <1>1, <3>3, OwnStepKeeps
  <2>2. CASE ~Ready /\ ParkOnNotEmpty(c)
    <3>1. OwnStep(c, "notEmptyWait")
      BY <1>2, <2>2 DEF ParkOnNotEmpty, Finish, members, Ready, OwnStep
    <3> QED
      BY <1>1, <3>1, OwnStepKeeps
  <2> QED
    BY <1>2, <2>1, <2>2
<1>3. CASE PopNothing(c)
  <2>1. OwnStep(c, "idle")
    BY <1>3 DEF PopNothing, Finish, members, OwnStep, ClosingStates
  <2> QED
    BY <1>1, <2>1, OwnStepKeeps
<1>4. ASSUME NEW m \in PopMethods, NEW n \in 1..MaxBatch, Pop(c, m, n)
      PROVE IInv'
  BY <1>2, <1>4 DEF Pop, ClosingStates
<1>5. CASE PopWake(c)
  BY <1>2, <1>5 DEF PopWake, ClosingStates
<1>6. CASE PopTimeout(c)
  <2>1. OwnStep(c, "notEmptyTimedOut")
    BY <1>6 DEF PopTimeout, members, OwnStep, ClosingStates
  <2> QED
    BY <1>1, <2>1, OwnStepKeeps
<1>7. CASE PopTimedOut(c)
  <2>1. CASE Finish(c, "idle", "noValues") /\ UNCHANGED <<members, batch>>
    <3>1. OwnStep(c, "idle")
      BY <1>7, <2>1 DEF PopTimedOut, Finish, members, OwnStep, ClosingStates
    <3> QED
      BY <1>1, <3>1, OwnStepKeeps
  <2> QED
    BY <1>2, <1>7, <2>1 DEF PopTimedOut, ClosingStates
<1>8. CASE PopNotify(c)
  <2>1. WakingStep
    BY <1>1, <1>8
    DEF PopNotify, NotifyOne, NotifyAll, OnNotFull, members, WakingStep,
        ClosingStates, NotFullStates
  <2> QED
    BY <2>1, WakingKeeps
<1> QED
  BY <1>3, <1>4, <1>5, <1>6, <1>7, <1>8 DEF ConsumerCall, ConsumerStep

(* close(): the closing thread answers for every sleeper until it has sent *)
(* both notifications.                                                     *)
LEMMA CloseKeeps ==
  ASSUME TypeOK, IInv, NEW t \in Threads, Close(t) \/ CloseNotify(t)
  PROVE  IInv'
<1> USE DEF TypeOK, IInv
<1>1. CASE Close(t)
  <2>1. \A u \in Threads : pc'[u] = IF u = t THEN "closeEmpty" ELSE pc[u]
    BY <1>1 DEF Close
  <2>2. OnNotFull' \subseteq OnNotFull
    BY <2>1 DEF OnNotFull
  <2>3. NoMissedClose'
    BY <1>1, <2>1, <2>2 DEF Close, NoMissedClose
  <2>4. SleepersPush'
    BY <2>1 DEF SleepersPush, NotFullStates
  <2> QED
    BY <2>3, <2>4
<1>2. CASE pc[t] = "closeEmpty" /\ CloseNotify(t)
  <2>1. /\ \A u \in Threads :
             pc'[u] = IF u = t THEN "closeFull"
                      ELSE IF u \in OnNotEmpty THEN "notEmptyWoken" ELSE pc[u]
        /\ UNCHANGED <<members, expected>>
    BY <1>2 DEF CloseNotify, NotifyAll
  <2>2. OnNotEmpty' = {} /\ OnNotFull' \subseteq OnNotFull
    BY <2>1 DEF OnNotEmpty, OnNotFull
  <2>3. NoMissedClose'
    BY <2>1, <2>2 DEF NoMissedClose, members
  <2>4. SleepersPush'
    BY <2>1 DEF SleepersPush, NotFullStates
  <2> QED
    BY <2>3, <2>4
<1>3. CASE pc[t] = "closeFull" /\ CloseNotify(t)
  <2>1. /\ \A u \in Threads :
             pc'[u] = IF u = t THEN "idle"
                      ELSE IF u \in OnNotFull THEN "notFullWoken" ELSE pc[u]
        /\ UNCHANGED <<members, expected>>
    BY <1>3 DEF CloseNotify, NotifyAll
  <2>2. OnNotFull' = {} /\ OnNotEmpty' \subseteq OnNotEmpty
    BY <2>1 DEF OnNotEmpty, OnNotFull
  <2>3. \A u \in Threads : pc[u] = "closeEmpty" => pc'[u] = "closeEmpty"
    BY <1>3, <2>1 DEF OnNotFull
  <2>4. NoMissedClose'
    BY <2>1, <2>2, <2>3 DEF NoMissedClose, members
  <2>5. SleepersPush'
    BY <2>1 DEF SleepersPush, NotFullStates, OnNotFull
  <2> QED
    BY <2>4, <2>5
<1> QED
  BY <1>1, <1>2, <1>3 DEF CloseNotify

(* reset() leaves nobody asleep.                                           *)
LEMMA ResetKeeps ==
  ASSUME TypeOK, IInv, NEW t, NEW cap, NEW policy, Reset(t, cap, policy)
  PROVE  IInv'
<1> USE DEF TypeOK, IInv
<1>1. \A u \in Threads :
        pc'[u] = IF u \in OnNotFull THEN "notFullWoken"
                 ELSE IF u \in OnNotEmpty THEN "notEmptyWoken" ELSE pc[u]
  BY DEF Reset, WakeEverybody
<1>2. OnNotFull' = {} /\ OnNotEmpty' = {}
  BY <1>1 DEF OnNotFull, OnNotEmpty
<1>3. SleepersPush'
  BY <1>1 DEF SleepersPush, NotFullStates, OnNotFull
<1> QED
  BY <1>2, <1>3 DEF NoMissedClose

(* Every step keeps the invariant.                                         *)
LEMMA NextKeeps == TypeOK /\ IInv /\ [Next]_vars => IInv'
<1> SUFFICES ASSUME TypeOK, IInv, [Next]_vars PROVE IInv'
  OBVIOUS
<1>1. ASSUME NEW t \in Controllers, ControllerCall(t) PROVE IInv'
  <2>1. t \in Threads
    BY DEF Threads
  <2> QED
    BY <1>1, <2>1, CloseKeeps, ResetKeeps DEF ControllerCall
<1>2. ASSUME NEW t \in Threads, SpuriousWake(t) PROVE IInv'
  <2>1. WakingStep
    BY <1>2
    DEF SpuriousWake, TypeOK, members, WakingStep, ClosingStates,
        NotFullStates
  <2> QED
    BY <2>1, WakingKeeps
<1>3. CASE UNCHANGED vars
  <2>1. WakingStep
    BY <1>3
    DEF vars, members, WakingStep, NotFullStates
  <2> QED
    BY <2>1, WakingKeeps
<1> QED
  BY <1>1, <1>2, <1>3, PushKeeps, PopKeeps, CloseKeeps DEF Next

(* While the queue is closed, threads sleep only if a notify_all is still  *)
(* to come, and no producer sleeps with a stale generation: for any number *)
(* of threads that push, pop, close and reset in any order.                *)
THEOREM CloseCorrect == Spec => []NoMissedClose
<1>1. Init => IInv
  BY DEF Init, IInv, NoMissedClose, SleepersPush, OnNotFull, OnNotEmpty,
         NotFullStates
<1>2. TypeOK /\ IInv /\ [Next]_vars => IInv'
  BY NextKeeps
<1>3. IInv => NoMissedClose
  BY DEF IInv
<1> QED
  BY <1>1, <1>2, <1>3, TypeCorrect, PTL DEF Spec

--------------------------------------------------------------------------------
(* No wakeup is lost *)

(* How the number m of things to be done and the set T of those awake for  *)
(* them may follow n and S, if S was enough for n: there is no more to do, *)
(* one more awake for one thing more, one gone with at least one thing     *)
(* done, or one has taken the place of another.                            *)
Covers(n, S, m, T) ==
  \/ m <= n /\ S \subseteq T
  \/ m <= n + 1 /\ S \subseteq T /\ \E x \in T : x \notin S
  \/ m < n /\ \E x \in S : S \ {x} \subseteq T
  \/ m <= n /\ \E x \in S, y \in T : y \notin S /\ S \ {x} \subseteq T

(* T is enough for m, then.                                                *)
LEMMA CoversEnough ==
  ASSUME NEW S, NEW T, IsFiniteSet(S), IsFiniteSet(T), NEW n \in Nat, NEW m \in Nat,
         n <= Cardinality(S), Covers(n, S, m, T)
  PROVE  m <= Cardinality(T)
<1>1. Cardinality(S) \in Nat /\ Cardinality(T) \in Nat
  BY FS_CardinalityType
<1>2. CASE m <= n /\ S \subseteq T
  BY <1>1, <1>2, FS_Subset
<1>3. ASSUME m <= n + 1, S \subseteq T, NEW x \in T, x \notin S
      PROVE  m <= Cardinality(T)
  <2>1. Cardinality(S \cup {x}) = Cardinality(S) + 1
    BY <1>3, FS_AddElement
  <2>2. Cardinality(S \cup {x}) <= Cardinality(T)
    BY <1>3, FS_Subset
  <2> QED
    BY <1>1, <1>3, <2>1, <2>2
<1>4. ASSUME m < n, NEW x \in S, S \ {x} \subseteq T
      PROVE  m <= Cardinality(T)
  <2>1. Cardinality(S \ {x}) = Cardinality(S) - 1
    BY <1>4, FS_RemoveElement
  <2>2. Cardinality(S \ {x}) <= Cardinality(T)
    BY <1>4, FS_Subset
  <2> QED
    BY <1>1, <1>4, <2>1, <2>2
<1>5. ASSUME m <= n, NEW x \in S, NEW y \in T, y \notin S, S \ {x} \subseteq T
      PROVE  m <= Cardinality(T)
  <2> DEFINE R == S \ {x}
  <2>1. IsFiniteSet(R) /\ Cardinality(R) = Cardinality(S) - 1
    BY <1>5, FS_RemoveElement
  <2>2. y \notin R /\ R \cup {y} \subseteq T
    BY <1>5
  <2> HIDE DEF R
  <2>3. Cardinality(R \cup {y}) = Cardinality(R) + 1
    BY <2>1, <2>2, FS_AddElement
  <2>4. Cardinality(R \cup {y}) <= Cardinality(T)
    BY <2>2, FS_Subset
  <2> QED
    BY <1>1, <1>5, <2>1, <2>3, <2>4
<1> QED
  BY <1>2, <1>3, <1>4, <1>5 DEF Covers

(* The effect of a step on the elements and the threads awake for them ... *)
ElementStep ==
  \/ Len(queue') = 0
  \/ OnNotEmpty' = {}
  \/ /\ OnNotEmpty' \subseteq OnNotEmpty
     /\ Covers(Len(queue), AwakeForElement, Len(queue'), AwakeForElement')

(* ... and on the free places                                              *)
PlaceStep ==
  \/ FreePlaces' = 0
  \/ OnNotFull' = {}
  \/ \E t \in Threads : pc'[t] = "notifyFullAll"
  \/ /\ OnNotFull' \subseteq OnNotFull
     /\ \A t \in Threads : pc[t] # "notifyFullAll"
     /\ Covers(FreePlaces, AwakeForPlace, FreePlaces', AwakeForPlace')

(* Steps that have such effects lose no wakeup; close() releases everybody *)
(* anyway, and reset() wakes everybody.                                    *)
LEMMA StepsKeepWakeups ==
  ASSUME TypeOK, TypeOK', NoLostWakeup,
         \/ closed'
         \/ OnNotFull' = {} /\ OnNotEmpty' = {}
         \/ ~closed /\ ElementStep /\ PlaceStep
  PROVE  NoLostWakeup'
<1>1. /\ IsFiniteSet(AwakeForElement) /\ IsFiniteSet(AwakeForElement')
      /\ IsFiniteSet(AwakeForPlace) /\ IsFiniteSet(AwakeForPlace')
  <2>1. /\ AwakeForElement \subseteq Threads /\ AwakeForElement' \subseteq Threads
        /\ AwakeForPlace \subseteq Threads /\ AwakeForPlace' \subseteq Threads
    BY DEF AwakeForElement, AwakeForPlace
  <2> QED
    BY <2>1, ThreadAssumption, FS_Subset
<1>2. Len(queue) \in Nat /\ Len(queue') \in Nat
  BY LenProperties DEF TypeOK
<1>3. FreePlaces \in Nat /\ FreePlaces' \in Nat
  BY <1>2 DEF TypeOK, FreePlaces
<1>4. /\ Cardinality(AwakeForElement') \in Nat /\ Cardinality(AwakeForPlace') \in Nat
  BY <1>1, FS_CardinalityType
<1>5. CASE ~closed' /\ ~closed /\ ElementStep /\ PlaceStep
  <2>1. OnNotEmpty' = {} \/ Len(queue') <= Cardinality(AwakeForElement')
    <3>1. CASE Len(queue') = 0
      BY <1>4, <3>1
    <3>2. CASE /\ OnNotEmpty # {}
               /\ Covers(Len(queue), AwakeForElement, Len(queue'), AwakeForElement')
      <4>1. Len(queue) <= Cardinality(AwakeForElement)
        BY <1>5, <3>2 DEF NoLostWakeup
      <4> QED
        BY <1>1, <1>2, <3>2, <4>1, CoversEnough
    <3> QED
      BY <1>5, <3>1, <3>2 DEF ElementStep
  <2>2. \/ OnNotFull' = {}
        \/ \E t \in Threads : pc'[t] = "notifyFullAll"
        \/ FreePlaces' <= Cardinality(AwakeForPlace')
    <3>1. CASE FreePlaces' = 0
      BY <1>4, <3>1
    <3>2. CASE /\ OnNotFull # {} /\ \A t \in Threads : pc[t] # "notifyFullAll"
               /\ Covers(FreePlaces, AwakeForPlace, FreePlaces', AwakeForPlace')
      <4>1. FreePlaces <= Cardinality(AwakeForPlace)
        BY <1>5, <3>2 DEF NoLostWakeup
      <4> QED
        BY <1>1, <1>3, <3>2, <4>1, CoversEnough
    <3> QED
      BY <1>5, <3>1, <3>2 DEF PlaceStep
  <2> QED
    BY <2>1, <2>2 DEF NoLostWakeup
<1> QED
  BY <1>5 DEF NoLostWakeup

(* A step in which only thread t goes on, to state s                       *)
Alone(t, s) ==
  /\ pc' = [pc EXCEPT ![t] = s]
  /\ generation' = generation
  /\ \A p \in Producers : p # t => expected'[p] = expected[p]

(* A thread that takes a step of its own changes only its own part in who  *)
(* is asleep and who is awake.                                             *)
LEMMA OwnAwake ==
  ASSUME TypeOK, SleepersPush, NEW t \in Threads, NEW s, Alone(t, s)
  PROVE  /\ \A u \in Threads : pc'[u] = IF u = t THEN s ELSE pc[u]
         /\ AwakeForElement \ {t} \subseteq AwakeForElement'
         /\ AwakeForPlace \ {t} \subseteq AwakeForPlace'
         /\ OnNotEmpty' \subseteq OnNotEmpty \cup {t}
         /\ OnNotFull' \subseteq OnNotFull \cup {t}
         /\ t \in OnNotEmpty' <=> s = "notEmptyWait"
         /\ t \in OnNotFull' <=> s = "notFullWait"
         /\ t \in AwakeForElement <=> pc[t] \in {"notifyEmpty", "notEmptyWoken",
                                                 "notEmptyTimedOut"}
         /\ t \in AwakeForElement' <=> s \in {"notifyEmpty", "notEmptyWoken",
                                              "notEmptyTimedOut"}
         /\ t \in AwakeForPlace <=> \/ pc[t] = "notifyFullOne"
                                    \/ pc[t] = "notFullWoken" /\ expected[t] = generation
         /\ s = "notifyFullOne" => t \in AwakeForPlace'
<1>1. \A u \in Threads : pc'[u] = IF u = t THEN s ELSE pc[u]
  BY DEF TypeOK, Alone
<1>2. \A u \in Threads \ {t} : pc[u] = "notFullWoken" => expected'[u] = expected[u]
  BY DEF SleepersPush, NotFullStates, Alone
<1> QED
  BY <1>1, <1>2 DEF AwakeForElement, AwakeForPlace, OnNotEmpty, OnNotFull, Alone

(* Such a step keeps the elements covered if it leaves none, or if the      *)
(* thread does not go to sleep and is not missed afterwards.               *)
LEMMA OwnElement ==
  ASSUME TypeOK, SleepersPush, NEW t \in Threads, NEW s, Alone(t, s),
         \/ Len(queue') = 0
         \/ /\ s # "notEmptyWait"
            /\ \/ /\ Len(queue') <= Len(queue)
                  /\ t \notin AwakeForElement \/ t \in AwakeForElement'
               \/ /\ Len(queue') <= Len(queue) + 1
                  /\ t \notin AwakeForElement /\ t \in AwakeForElement'
               \/ Len(queue') < Len(queue) /\ t \in AwakeForElement
  PROVE  ElementStep
<1>1. CASE Len(queue') = 0
  BY <1>1 DEF ElementStep
<1>2. CASE /\ s # "notEmptyWait"
           /\ \/ /\ Len(queue') <= Len(queue)
                 /\ t \notin AwakeForElement \/ t \in AwakeForElement'
              \/ /\ Len(queue') <= Len(queue) + 1
                 /\ t \notin AwakeForElement /\ t \in AwakeForElement'
              \/ Len(queue') < Len(queue) /\ t \in AwakeForElement
  <2> DEFINE A == AwakeForElement
             B == AwakeForElement'
  <2>1. A \ {t} \subseteq B /\ OnNotEmpty' \subseteq OnNotEmpty
    BY <1>2, OwnAwake
  <2> HIDE DEF A, B
  <2>2. t \notin A \/ t \in B => A \subseteq B
    BY <2>1
  <2>3. Covers(Len(queue), A, Len(queue'), B)
    BY <1>2, <2>1, <2>2 DEF Covers, A, B
  <2> QED
    BY <2>1, <2>3 DEF ElementStep, A, B
<1> QED
  BY <1>1, <1>2

(* The same for the free places; who is still to notify all the sleepers   *)
(* covers any number of them.                                              *)
LEMMA OwnPlace ==
  ASSUME TypeOK, SleepersPush, NEW t \in Threads, NEW s, Alone(t, s),
         \/ FreePlaces' = 0
         \/ s = "notifyFullAll"
         \/ /\ s # "notFullWait" /\ pc[t] # "notifyFullAll"
            /\ \/ FreePlaces' <= FreePlaces /\ t \notin AwakeForPlace
               \/ /\ FreePlaces' <= FreePlaces + 1
                  /\ t \notin AwakeForPlace /\ t \in AwakeForPlace'
               \/ FreePlaces' < FreePlaces /\ t \in AwakeForPlace
  PROVE  PlaceStep
<1>1. \A u \in Threads : pc'[u] = IF u = t THEN s ELSE pc[u]
  BY DEF TypeOK, Alone
<1>2. CASE FreePlaces' = 0 \/ s = "notifyFullAll"
  BY <1>1, <1>2 DEF PlaceStep
<1>3. CASE /\ pc[t] # "notifyFullAll"
           /\ \E u \in Threads : pc[u] = "notifyFullAll"
  BY <1>1, <1>3 DEF PlaceStep
<1>4. CASE /\ \A u \in Threads : pc[u] # "notifyFullAll"
           /\ s # "notFullWait"
           /\ \/ FreePlaces' <= FreePlaces /\ t \notin AwakeForPlace
              \/ /\ FreePlaces' <= FreePlaces + 1
                 /\ t \notin AwakeForPlace /\ t \in AwakeForPlace'
              \/ FreePlaces' < FreePlaces /\ t \in AwakeForPlace
  <2> DEFINE A == AwakeForPlace
             B == AwakeForPlace'
  <2>1. A \ {t} \subseteq B /\ OnNotFull' \subseteq OnNotFull
    BY <1>4, OwnAwake
  <2> HIDE DEF A, B
  <2>2. t \notin A => A \subseteq B
    BY <2>1
  <2>3. Covers(FreePlaces, A, FreePlaces', B)
    BY <1>4, <2>1, <2>2 DEF Covers, A, B
  <2> QED
    BY <1>4, <2>1, <2>3 DEF PlaceStep, A, B
<1> QED
  BY <1>2, <1>3, <1>4

(* What push() does under the lock of an open queue: it fills a place and  *)
(* will notify, or it goes to sleep on a full queue, or nobody had counted *)
(* on it.                                                                  *)
LEMMA PushWakeups ==
  ASSUME TypeOK, SleepersPush, ~closed,
         NEW p \in Producers, NEW v \in Values, NEW g \in Nat,
         \A q \in Producers : q # p => expected'[q] = expected[q],
         \/ pc[p] = "idle" /\ PushLocked(p, v, g)
         \/ pc[p] = "notFullWoken" /\ expected[p] = g /\ AwaitRoom(p, v, g)
  PROVE  ElementStep /\ PlaceStep
<1>1. p \in Threads /\ generation' = generation
  BY PushLockedType, AwaitRoomType DEF Threads, AwaitRoom
<1>2. /\ Len(queue) \in Nat /\ capacity \in Nat \ {0}
      /\ p \notin AwakeForElement /\ pc[p] # "notifyFullAll"
  BY LenProperties DEF TypeOK, AwakeForElement
<1>3. CASE \/ Refuse(p) /\ (pc[p] = "idle" \/ g # generation)
           \/ DropNewest(p) /\ pc[p] = "idle"
  <2>1. Alone(p, "idle") /\ queue' = queue /\ capacity' = capacity
    BY <1>1, <1>3 DEF Refuse, DropNewest, Finish, members, Alone
  <2>2. p \notin AwakeForPlace
    BY <1>3 DEF AwakeForPlace
  <2>3. ElementStep
    BY <1>1, <1>2, <2>1, OwnElement
  <2>4. FreePlaces' = FreePlaces /\ FreePlaces \in Nat
    BY <1>2, <2>1 DEF FreePlaces
  <2>5. PlaceStep
    BY <1>1, <1>2, <2>1, <2>2, <2>4, OwnPlace
  <2> QED
    BY <2>3, <2>5
<1>4. CASE ~WaitOver(g) /\ Finish(p, "notFullWait", "none") /\ UNCHANGED members
  <2>1. /\ Alone(p, "notFullWait")
        /\ queue' = queue /\ capacity' = capacity
    BY <1>1, <1>4 DEF Finish, members, Alone
  <2>2. FreePlaces' = 0
    BY <1>2, <1>4, <2>1 DEF WaitOver, FreePlaces
  <2>3. ElementStep
    BY <1>1, <1>2, <2>1, OwnElement
  <2>4. PlaceStep
    BY <1>1, <2>1, <2>2, OwnPlace
  <2> QED
    BY <2>3, <2>4
<1>5. CASE Len(queue) < capacity /\ Enqueue(p, v, g)
  <2>1. Alone(p, "notifyEmpty") /\ capacity' = capacity
    BY <1>1, <1>5 DEF Enqueue, Finish, Alone
  <2>2. Len(queue') = Len(queue) + 1
    BY <1>5, AppendProperties DEF TypeOK, Enqueue, EmplaceLocked, Entry
  <2>3. p \in AwakeForElement'
    BY <1>1, <2>1 DEF TypeOK, AwakeForElement, Alone
  <2>4. ElementStep
    BY <1>1, <1>2, <2>1, <2>2, <2>3, OwnElement
  <2>5. FreePlaces' < FreePlaces /\ FreePlaces \in Nat /\ FreePlaces' \in Nat
    BY <1>2, <1>5, <2>1, <2>2 DEF FreePlaces
  <2>6. FreePlaces' <= FreePlaces
    BY <2>5
  <2>7. PlaceStep
    BY <1>1, <1>2, <2>1, <2>5, <2>6, OwnPlace
  <2> QED
    BY <2>4, <2>7
<1>6. CASE pc[p] = "idle" /\ Len(queue) >= capacity /\ DropOldest(p, v, g)
  <2>1. Alone(p, "notifyEmpty") /\ capacity' = capacity
    BY <1>1, <1>6 DEF DropOldest, Finish, Alone
  <2>2. queue # <<>>
    BY <1>2, <1>6
  <2>3. Tail(queue) \in Seq(Entry) /\ Len(Tail(queue)) = Len(queue) - 1
    BY <2>2, HeadTailProperties DEF TypeOK
  <2>4. Len(queue') = Len(queue)
    BY <1>2, <1>6, <2>3, AppendProperties DEF DropOldest, EmplaceLocked, Entry
  <2>5. ElementStep
    BY <1>1, <1>2, <2>1, <2>4, OwnElement
  <2>6. FreePlaces' = FreePlaces /\ FreePlaces \in Nat
    BY <1>2, <2>1, <2>4 DEF FreePlaces
  <2>7. p \notin AwakeForPlace
    BY <1>6 DEF AwakeForPlace
  <2>8. PlaceStep
    BY <1>1, <1>2, <2>1, <2>6, <2>7, OwnPlace
  <2> QED
    BY <2>5, <2>8
<1>7. Rejected(g) => g # generation
  BY DEF Rejected
<1>8. WaitOver(g) /\ ~Rejected(g) => Len(queue) < capacity
  BY DEF WaitOver, Rejected
<1>9. CASE PushLocked(p, v, g) /\ pc[p] = "idle"
  BY <1>3, <1>4, <1>5, <1>6, <1>8, <1>9 DEF PushLocked, AwaitRoom
<1>10. CASE AwaitRoom(p, v, g)
  BY <1>3, <1>4, <1>5, <1>7, <1>8, <1>10 DEF AwaitRoom
<1> QED
  BY <1>9, <1>10

(* pop() asks for one element, so one notification is enough for the place *)
(* it frees.                                                               *)
PopsOne == \A c \in Consumers : method[c] = "pop" => maxCount[c] = 1

(* What a consumer does under the lock of an open queue: it takes elements *)
(* and will notify for the places, or it finds none, and then there is     *)
(* nothing to be woken for.                                                *)
LEMMA TakeWakeups ==
  ASSUME TypeOK, SleepersPush, NEW c \in Consumers,
         NEW m \in PopMethods, NEW n \in Nat \ {0}, m = "pop" => n = 1,
         pc[c] \in {"idle", "notEmptyWoken", "notEmptyTimedOut"},
         expected' = expected,
         \/ TakeLocked(c, m, n)
         \/ ~Ready /\ ParkOnNotEmpty(c)
         \/ ~Ready /\ Finish(c, "idle", "noValues") /\ UNCHANGED <<members, batch>>
  PROVE  ElementStep /\ PlaceStep
<1>1. c \in Threads
  BY DEF Threads
<1>2. /\ Len(queue) \in Nat /\ capacity \in Nat \ {0} /\ FreePlaces \in Nat
      /\ c \notin AwakeForPlace /\ pc[c] # "notifyFullAll"
  BY LenProperties DEF TypeOK, AwakeForPlace, FreePlaces
<1>3. ASSUME NEW s \in {"idle", "notEmptyWait"}, queue = <<>>,
             UNCHANGED members, pc' = [pc EXCEPT ![c] = s]
      PROVE  ElementStep /\ PlaceStep
  <2>1. Alone(c, s) /\ queue' = <<>> /\ capacity' = capacity /\ queue' = queue
    BY <1>3 DEF Alone, members
  <2>2. Len(queue') = 0 /\ FreePlaces' = FreePlaces
    BY <2>1 DEF FreePlaces
  <2>3. ElementStep
    BY <1>1, <2>1, <2>2, OwnElement
  <2>4. FreePlaces' <= FreePlaces /\ s # "notFullWait"
    BY <1>2, <2>2
  <2>5. PlaceStep
    BY <1>1, <1>2, <2>1, <2>4, OwnPlace
  <2> QED
    BY <2>3, <2>5
<1>4. CASE queue # <<>> /\ TakeLocked(c, m, n)
  <2> DEFINE k == IF Len(queue) < n THEN Len(queue) ELSE n
  <2>1. /\ queue' = SubSeq(queue, k + 1, Len(queue))
        /\ Finish(c, NotifyAfter(m), "values")
        /\ capacity' = capacity /\ generation' = generation
    BY <1>4 DEF TakeLocked
  <2>2. Alone(c, NotifyAfter(m))
    BY <2>1 DEF Finish, Alone
  <2>3. k \in Nat \ {0} /\ k <= Len(queue) /\ (m = "pop" => k = 1)
    <3>1. Len(queue) # 0
      BY <1>4, EmptySeq DEF TypeOK
    <3> QED
      BY <1>2, <3>1
  <2>4. \A i \in 1..Len(queue) : queue[i] \in Entry
    BY DEF TypeOK
  <2>5. Len(queue') = IF k + 1 <= Len(queue) THEN Len(queue) - k ELSE 0
    <3> HIDE DEF k
    <3>1. k \in Nat /\ Len(queue) \in Nat /\ k <= Len(queue)
      BY <1>2, <2>3
    <3> QED
      BY <2>1, <2>4, <3>1, SubSeqProperties DEF TypeOK
  <2> HIDE DEF k
  <2>6. Len(queue') = Len(queue) - k
    BY <1>2, <2>3, <2>5
  <2>7. Len(queue') < Len(queue) /\ Len(queue') <= Len(queue)
    BY <1>2, <2>3, <2>6
  <2>8. NotifyAfter(m) \in {"notifyFullOne", "notifyFullAll"}
    BY DEF NotifyAfter
  <2>9. NotifyAfter(m) # "notEmptyWait" /\ NotifyAfter(m) # "notFullWait"
    BY <2>8
  <2>10. ElementStep
    BY <1>1, <2>2, <2>7, <2>9, OwnElement
  <2>11. CASE m = "pop"
    <3>1. NotifyAfter(m) = "notifyFullOne"
      BY <2>11 DEF NotifyAfter
    <3>2. c \in AwakeForPlace'
      BY <1>1, <2>2, <3>1, OwnAwake
    <3>3. FreePlaces' <= FreePlaces + 1
      BY <1>2, <2>1, <2>3, <2>6, <2>11 DEF FreePlaces
    <3> QED
      BY <1>1, <1>2, <2>2, <2>9, <2>10, <3>2, <3>3, OwnPlace
  <2>12. CASE m # "pop"
    <3>1. NotifyAfter(m) = "notifyFullAll"
      BY <2>12 DEF NotifyAfter
    <3> QED
      BY <1>1, <2>2, <2>10, <3>1, OwnPlace
  <2> QED
    BY <2>10, <2>11, <2>12
<1>5. ~Ready => queue = <<>>
  BY DEF Ready
<1>6. CASE queue = <<>> /\ TakeLocked(c, m, n)
  BY <1>3, <1>6 DEF TakeLocked, Finish
<1>7. CASE ~Ready /\ ParkOnNotEmpty(c)
  BY <1>3, <1>5, <1>7 DEF ParkOnNotEmpty, Finish
<1>8. CASE ~Ready /\ Finish(c, "idle", "noValues") /\ UNCHANGED <<members, batch>>
  BY <1>3, <1>5, <1>8 DEF Finish
<1> QED
  BY <1>4, <1>6, <1>7, <1>8

(* A thread that nobody counts on, before this step or after it            *)
LEMMA UncountedStep ==
  ASSUME TypeOK, SleepersPush, NEW t \in Threads, NEW s, Alone(t, s),
         queue' = queue, capacity' = capacity,
         t \notin AwakeForPlace, t \notin AwakeForElement,
         pc[t] # "notifyFullAll", s # "notFullWait", s # "notEmptyWait"
  PROVE  ElementStep /\ PlaceStep
<1>1. /\ Len(queue) \in Nat /\ FreePlaces \in Nat
  BY LenProperties DEF TypeOK, FreePlaces
<1>2. Len(queue') <= Len(queue) /\ FreePlaces' <= FreePlaces
  BY <1>1 DEF FreePlaces
<1>3. ElementStep
  BY <1>2, OwnElement
<1>4. PlaceStep
  BY <1>2, OwnPlace
<1> QED
  BY <1>3, <1>4

(* Waking sleepers of one condition variable changes nothing for the other *)
(* one: whoever was awake for a place is so still ...                      *)
LEMMA PlacesUnmoved ==
  ASSUME TypeOK, UNCHANGED members, expected' = expected,
         \A u \in Threads :
           \/ pc'[u] = pc[u]
           \/ /\ pc[u] \notin {"notFullWoken", "notifyFullOne", "notifyFullAll"}
              /\ pc'[u] # "notFullWait"
  PROVE  PlaceStep
<1>1. FreePlaces' = FreePlaces /\ FreePlaces \in Nat
  BY LenProperties DEF TypeOK, FreePlaces, members
<1>2. AwakeForPlace \subseteq AwakeForPlace' /\ OnNotFull' \subseteq OnNotFull
  BY DEF AwakeForPlace, OnNotFull, members
<1>3. FreePlaces' <= FreePlaces
  BY <1>1
<1>4. CASE \A u \in Threads : pc[u] # "notifyFullAll"
  BY <1>2, <1>3, <1>4 DEF PlaceStep, Covers
<1>5. CASE \E u \in Threads : pc[u] = "notifyFullAll"
  BY <1>5 DEF PlaceStep
<1> QED
  BY <1>4, <1>5

(* ... and so is whoever was awake for an element.                         *)
LEMMA ElementsUnmoved ==
  ASSUME TypeOK, UNCHANGED members,
         \A u \in Threads :
           \/ pc'[u] = pc[u]
           \/ /\ pc[u] \notin {"notifyEmpty", "notEmptyWoken", "notEmptyTimedOut"}
              /\ pc'[u] # "notEmptyWait"
  PROVE  ElementStep
<1>1. Len(queue') <= Len(queue)
  BY LenProperties DEF TypeOK, members
<1>2. /\ AwakeForElement \subseteq AwakeForElement'
      /\ OnNotEmpty' \subseteq OnNotEmpty
  BY DEF AwakeForElement, OnNotEmpty
<1> QED
  BY <1>1, <1>2 DEF ElementStep, Covers

(* notify_one of a producer: the consumer it wakes takes its place among   *)
(* those awake for the elements.                                           *)
LEMMA PushNotifyWakeups ==
  ASSUME TypeOK, NEW p \in Producers, PushNotify(p)
  PROVE  ElementStep /\ PlaceStep
<1> USE DEF TypeOK
<1>1. p \in Threads /\ pc[p] = "notifyEmpty" /\ UNCHANGED members /\ expected' = expected
  BY DEF Threads, PushNotify
<1>2. CASE OnNotEmpty = {} /\ pc' = [pc EXCEPT ![p] = "idle"]
  <2>1. \A u \in Threads : pc'[u] = IF u = p THEN "idle" ELSE pc[u]
    BY <1>2
  <2>2. OnNotEmpty' = {}
    BY <1>2, <2>1 DEF OnNotEmpty
  <2>3. PlaceStep
    BY <1>1, <2>1, PlacesUnmoved
  <2> QED
    BY <2>2, <2>3 DEF ElementStep
<1>3. ASSUME NEW s \in OnNotEmpty,
             pc' = [pc EXCEPT ![p] = "idle", ![s] = "notEmptyWoken"]
      PROVE  ElementStep /\ PlaceStep
  <2>1. s \in Threads /\ pc[s] = "notEmptyWait" /\ s # p
    BY <1>1 DEF OnNotEmpty
  <2>2. \A u \in Threads :
          pc'[u] = IF u = s THEN "notEmptyWoken" ELSE IF u = p THEN "idle" ELSE pc[u]
    BY <1>1, <1>3, <2>1
  <2>3. PlaceStep
    BY <1>1, <2>1, <2>2, PlacesUnmoved
  <2>4. /\ p \in AwakeForElement /\ s \in AwakeForElement' /\ s \notin AwakeForElement
        /\ AwakeForElement \ {p} \subseteq AwakeForElement'
        /\ OnNotEmpty' \subseteq OnNotEmpty
    BY <1>1, <2>1, <2>2 DEF AwakeForElement, OnNotEmpty
  <2>5. Len(queue') <= Len(queue)
    BY <1>1, LenProperties DEF members
  <2> QED
    BY <2>3, <2>4, <2>5 DEF ElementStep, Covers
<1> QED
  BY <1>2, <1>3 DEF PushNotify, NotifyOne

(* A consumer's notifications: notify_one hands the place on to a producer *)
(* that can use it, since no sleeper is stale; notify_all leaves nobody    *)
(* asleep.                                                                 *)
LEMMA PopNotifyWakeups ==
  ASSUME TypeOK, IInv, NEW c \in Consumers, PopNotify(c)
  PROVE  ElementStep /\ PlaceStep
<1> USE DEF TypeOK
<1>1. c \in Threads /\ UNCHANGED members /\ expected' = expected
  BY DEF Threads, PopNotify
<1>2. CASE /\ pc[c] \in {"notifyFullOne", "notifyFullAll"}
           /\ \A u \in Threads :
                pc'[u] = IF u = c THEN "idle"
                         ELSE IF u \in OnNotFull THEN "notFullWoken" ELSE pc[u]
  <2>1. OnNotFull' = {}
    BY <1>2 DEF OnNotFull
  <2>2. ElementStep
    BY <1>1, <1>2, ElementsUnmoved DEF OnNotFull
  <2> QED
    BY <2>1, <2>2 DEF PlaceStep
<1>3. CASE pc[c] = "notifyFullAll"
  BY <1>2, <1>3 DEF PopNotify, NotifyAll
<1>4. CASE pc[c] = "notifyFullOne" /\ OnNotFull = {} /\ pc' = [pc EXCEPT ![c] = "idle"]
  BY <1>2, <1>4
<1>5. ASSUME pc[c] = "notifyFullOne", NEW s \in OnNotFull,
             pc' = [pc EXCEPT ![c] = "idle", ![s] = "notFullWoken"]
      PROVE  ElementStep /\ PlaceStep
  <2>1. s \in Threads /\ pc[s] = "notFullWait" /\ s # c /\ expected[s] = generation
    BY <1>5 DEF OnNotFull, IInv, NoMissedClose
  <2>2. \A u \in Threads :
          pc'[u] = IF u = s THEN "notFullWoken" ELSE IF u = c THEN "idle" ELSE pc[u]
    BY <1>1, <1>5, <2>1
  <2>3. ElementStep
    BY <1>1, <1>5, <2>1, <2>2, ElementsUnmoved
  <2>4. /\ c \in AwakeForPlace /\ s \in AwakeForPlace' /\ s \notin AwakeForPlace
        /\ AwakeForPlace \ {c} \subseteq AwakeForPlace'
        /\ OnNotFull' \subseteq OnNotFull
    BY <1>1, <1>5, <2>1, <2>2 DEF AwakeForPlace, OnNotFull, members
  <2>5. FreePlaces' <= FreePlaces
    BY <1>1, LenProperties DEF members, FreePlaces
  <2>6. CASE \A u \in Threads : pc[u] # "notifyFullAll"
    BY <2>3, <2>4, <2>5, <2>6 DEF PlaceStep, Covers
  <2>7. CASE \E u \in Threads : pc[u] = "notifyFullAll"
    BY <1>5, <2>1, <2>2, <2>3, <2>7 DEF PlaceStep
  <2> QED
    BY <2>6, <2>7
<1> QED
  BY <1>3, <1>4, <1>5 DEF PopNotify, NotifyOne

(* The notifications of close() and a spurious wakeup only wake sleepers.   *)
LEMMA WakingWakeups ==
  ASSUME TypeOK, SleepersPush, NEW t \in Threads, CloseNotify(t) \/ SpuriousWake(t)
  PROVE  ElementStep /\ PlaceStep
<1> USE DEF TypeOK
<1>1. UNCHANGED members /\ expected' = expected
  BY DEF CloseNotify, SpuriousWake
<1>2. CASE pc[t] = "closeEmpty" /\ CloseNotify(t)
  <2>1. \A u \in Threads :
          pc'[u] = IF u = t THEN "closeFull"
                   ELSE IF u \in OnNotEmpty THEN "notEmptyWoken" ELSE pc[u]
    BY <1>2 DEF CloseNotify, NotifyAll
  <2>2. OnNotEmpty' = {}
    BY <2>1 DEF OnNotEmpty
  <2>3. PlaceStep
    BY <1>1, <1>2, <2>1, PlacesUnmoved DEF OnNotEmpty
  <2> QED
    BY <2>2, <2>3 DEF ElementStep
<1>3. CASE pc[t] = "closeFull" /\ CloseNotify(t)
  <2>1. \A u \in Threads :
          pc'[u] = IF u = t THEN "idle"
                   ELSE IF u \in OnNotFull THEN "notFullWoken" ELSE pc[u]
    BY <1>3 DEF CloseNotify, NotifyAll
  <2>2. OnNotFull' = {}
    BY <2>1 DEF OnNotFull
  <2>3. ElementStep
    BY <1>1, <1>3, <2>1, ElementsUnmoved DEF OnNotFull
  <2> QED
    BY <2>2, <2>3 DEF PlaceStep
<1>4. ASSUME NEW s \in {"notFullWoken", "notEmptyWoken"},
             pc[t] \in {"notFullWait", "notEmptyWait"}, pc' = [pc EXCEPT ![t] = s]
      PROVE  ElementStep /\ PlaceStep
  <2>1. \A u \in Threads : pc'[u] = IF u = t THEN s ELSE pc[u]
    BY <1>4
  <2>2. ElementStep
    BY <1>1, <1>4, <2>1, ElementsUnmoved
  <2>3. PlaceStep
    BY <1>1, <1>4, <2>1, PlacesUnmoved
  <2> QED
    BY <2>2, <2>3
<1> QED
  BY <1>2, <1>3, <1>4 DEF CloseNotify, SpuriousWake

(* Only close() and reset() change whether the queue is closed.            *)
LEMMA NextClosed ==
  ASSUME TypeOK, [Next]_vars
  PROVE  closed' = closed \/ \E t \in Controllers : ControllerCall(t)
<1>1. ASSUME NEW p \in Producers, ProducerCall(p) \/ ProducerStep(p)
      PROVE  closed' = closed
  <2>1. ASSUME NEW v, NEW g, PushLocked(p, v, g) \/ AwaitRoom(p, v, g)
        PROVE  closed' = closed
    BY <2>1 DEF PushLocked, AwaitRoom, Refuse, Enqueue, DropNewest, DropOldest, members
  <2> QED
    BY <1>1, <2>1 DEF ProducerCall, ProducerStep, GetGeneration, Push, PushCurrent,
                      PushWake, PushNotify, members
<1>2. ASSUME NEW c \in Consumers, ConsumerCall(c) \/ ConsumerStep(c) \/ PopTimeout(c)
      PROVE  closed' = closed
  <2>1. ASSUME NEW m, NEW n, TakeLocked(c, m, n) PROVE closed' = closed
    BY <2>1 DEF TakeLocked, members
  <2> QED
    BY <1>2, <2>1 DEF ConsumerCall, ConsumerStep, PopNothing, Pop, PopWake, PopTimeout,
                      PopTimedOut, PopNotify, ParkOnNotEmpty, members
<1>3. ASSUME NEW t \in Threads, CloseNotify(t) \/ SpuriousWake(t)
      PROVE  closed' = closed
  BY <1>3 DEF CloseNotify, SpuriousWake, members
<1> QED
  BY <1>1, <1>2, <1>3 DEF Next, vars, members

(* No step of a producer, of a consumer or of close() and reset() loses a  *)
(* wakeup.                                                                 *)
LEMMA NextWakeups ==
  ASSUME TypeOK, TypeOK', IInv, PopsOne, NoLostWakeup, [Next]_vars
  PROVE  NoLostWakeup'
<1>1. SleepersPush
  BY DEF IInv
<1>2. CASE closed /\ closed'
  BY <1>2 DEF NoLostWakeup
<1>3. ASSUME NEW p \in Producers, ~closed, ProducerCall(p) \/ ProducerStep(p)
      PROVE  ElementStep /\ PlaceStep
  <2>1. p \in Threads
    BY DEF Threads
  <2>2. CASE GetGeneration(p)
    <3>1. /\ Alone(p, "idle") /\ queue' = queue /\ capacity' = capacity
          /\ pc[p] = "idle"
      BY <2>2 DEF GetGeneration, members, Alone, TypeOK
    <3>2. p \notin AwakeForPlace /\ p \notin AwakeForElement
      BY <3>1 DEF AwakeForPlace, AwakeForElement
    <3> QED
      BY <1>1, <2>1, <3>1, <3>2, UncountedStep
  <2>3. ASSUME NEW v \in Values, Push(p, v) PROVE ElementStep /\ PlaceStep
    <3>1. expected[p] \in Nat /\ expected' = expected
      BY <2>3 DEF TypeOK, Push
    <3> QED
      BY <1>1, <1>3, <2>3, <3>1, PushWakeups DEF Push
  <2>4. ASSUME NEW v \in Values, PushCurrent(p, v) PROVE ElementStep /\ PlaceStep
    <3>1. generation \in Nat /\ \A q \in Producers : q # p => expected'[q] = expected[q]
      BY <2>4 DEF TypeOK, PushCurrent
    <3> QED
      BY <1>1, <1>3, <2>4, <3>1, PushWakeups DEF PushCurrent
  <2>5. CASE PushWake(p)
    <3>1. expected[p] \in Nat /\ value[p] \in Values /\ expected' = expected
      BY <2>5 DEF TypeOK, PushWake
    <3> QED
      BY <1>1, <1>3, <2>5, <3>1, PushWakeups DEF PushWake
  <2> QED
    BY <1>3, <2>2, <2>3, <2>4, <2>5, PushNotifyWakeups DEF ProducerCall, ProducerStep
<1>4. ASSUME NEW c \in Consumers, ~closed,
             ConsumerCall(c) \/ ConsumerStep(c) \/ PopTimeout(c)
      PROVE  ElementStep /\ PlaceStep
  <2>1. c \in Threads /\ method[c] \in PopMethods /\ maxCount[c] \in Nat \ {0}
    BY DEF Threads, TypeOK
  <2>2. ASSUME NEW s, s \notin {"notFullWait", "notEmptyWait"},
               pc[c] \in {"idle", "notEmptyWait"}, pc' = [pc EXCEPT ![c] = s],
               UNCHANGED <<members, expected>>
        PROVE  ElementStep /\ PlaceStep
    <3>1. Alone(c, s) /\ queue' = queue /\ capacity' = capacity
      BY <2>2 DEF members, Alone
    <3>2. c \notin AwakeForPlace /\ c \notin AwakeForElement
      BY <2>2 DEF AwakeForPlace, AwakeForElement
    <3> QED
      BY <1>1, <2>1, <2>2, <3>1, <3>2, UncountedStep
  <2>3. CASE PopNothing(c)
    BY <2>2, <2>3 DEF PopNothing, Finish
  <2>4. CASE PopTimeout(c)
    BY <2>2, <2>4 DEF PopTimeout
  <2>5. ASSUME NEW m \in PopMethods, NEW n \in 1..MaxBatch, Pop(c, m, n)
        PROVE  ElementStep /\ PlaceStep
    <3>1. n \in Nat \ {0}
      BY SizeAssumption
    <3> QED
      BY <1>1, <2>5, <3>1, TakeWakeups DEF Pop
  <2>6. CASE PopWake(c)
    BY <1>1, <2>1, <2>6, TakeWakeups DEF PopWake, PopsOne
  <2>7. CASE PopTimedOut(c)
    BY <1>1, <2>1, <2>7, TakeWakeups DEF PopTimedOut, PopsOne
  <2> QED
    BY <1>4, <2>3, <2>4, <2>5, <2>6, <2>7, PopNotifyWakeups
    DEF ConsumerCall, ConsumerStep
<1>5. ASSUME NEW t \in Controllers, ControllerCall(t) PROVE NoLostWakeup'
  <2>1. CASE Close(t)
    BY <2>1 DEF Close, NoLostWakeup
  <2>2. ASSUME NEW cap, NEW policy, Reset(t, cap, policy) PROVE NoLostWakeup'
    <3>1. \A u \in Threads :
            pc'[u] = IF u \in OnNotFull THEN "notFullWoken"
                     ELSE IF u \in OnNotEmpty THEN "notEmptyWoken" ELSE pc[u]
      BY <2>2 DEF Reset, WakeEverybody
    <3>2. OnNotFull' = {} /\ OnNotEmpty' = {}
      BY <3>1 DEF OnNotFull, OnNotEmpty
    <3> QED
      BY <3>2, StepsKeepWakeups
  <2> QED
    BY <1>5, <2>1, <2>2 DEF ControllerCall
<1>6. CASE UNCHANGED vars
  BY <1>6 DEF vars, members, NoLostWakeup, OnNotFull, OnNotEmpty, FreePlaces,
              AwakeForPlace, AwakeForElement
<1>7. ASSUME ~closed, ElementStep /\ PlaceStep PROVE NoLostWakeup'
  BY <1>7, StepsKeepWakeups
<1>8. closed' = closed \/ \E t \in Controllers : ControllerCall(t)
  BY NextClosed
<1> QED
  BY <1>1, <1>2, <1>3, <1>4, <1>5, <1>6, <1>7, <1>8, WakingWakeups DEF TypeOK, Next

(* pop() always asks for one element.                                      *)
LEMMA NextPopsOne == PopsOne /\ TypeOK /\ [Next]_vars => PopsOne'
<1> SUFFICES ASSUME PopsOne, TypeOK, [Next]_vars PROVE PopsOne'
  OBVIOUS
<1>1. ASSUME NEW c \in Consumers, NEW m, NEW n, Pop(c, m, n) PROVE PopsOne'
  BY <1>1 DEF Pop, TypeOK, PopsOne
<1>2. CASE UNCHANGED <<method, maxCount>>
  BY <1>2 DEF PopsOne
<1> QED
  BY <1>1, <1>2
  DEF Next, ProducerCall, ProducerStep, ConsumerCall, ConsumerStep, ControllerCall,
      GetGeneration, Push, PushCurrent, PushWake, PushNotify, PopNothing, PopWake,
      PopTimeout, PopTimedOut, PopNotify, Close, CloseNotify, SpuriousWake, Reset, vars

(* No wakeup is lost to the gap between unlock() and notify_one(), to a    *)
(* thread that overtakes the one woken, or to a timeout, whatever the      *)
(* number of producers and consumers, their mix of pop functions, and the  *)
(* capacity.                                                               *)
THEOREM WakeupCorrect == Spec => []NoLostWakeup
<1>1. Init => IInv /\ PopsOne /\ NoLostWakeup
  BY DEF Init, IInv, NoMissedClose, SleepersPush, PopsOne, NoLostWakeup, OnNotFull,
         OnNotEmpty, NotFullStates
<1>2. TypeOK /\ IInv /\ [Next]_vars => IInv'
  BY NextKeeps
<1>3. TypeOK /\ PopsOne /\ [Next]_vars => PopsOne'
  BY NextPopsOne
<1>4. /\ TypeOK /\ TypeOK' /\ IInv /\ PopsOne /\ NoLostWakeup /\ [Next]_vars
      => NoLostWakeup'
  BY NextWakeups
<1> QED
  BY <1>1, <1>2, <1>3, <1>4, TypeCorrect, PTL DEF Spec
================================================================================

-------------------------- MODULE ProducerGroupProofs --------------------------
(***************************************************************************)
(* Proofs about ProducerGroup for any finite number of threads and any     *)
(* number of messages.                                                     *)
(***************************************************************************)
EXTENDS ProducerGroup, FiniteSetTheorems, TLAPS

--------------------------------------------------------------------------------
(* The inductive invariant *)

(* What main has done so far is told by where it is.                       *)
Phases ==
  /\ main = "launching" =>
       outcome = "none" /\ ~startWorkers /\ ~producersDone
  /\ main \in {"launching", "readyWait", "readyWoken", "startNotify",
               "awaitDone", "doneWait", "doneWoken", "rethrow", "draining"}
       => ~releaseWorkers
  /\ main \in {"rethrow", "draining"} => producersDone
  /\ outcome = "returned" => producersDone /\ workerFailure = None

(* What a thread has done so far, and which flags it has found set, is     *)
(* told by where it is; one that cannot submit has recorded why.           *)
Threads ==
  \A w \in Workers :
    /\ w \notin created => worker[w] = "none"
    /\ worker[w] \in Submitting \cup {"completing"} \cup AfterCompletion
         => startWorkers
    /\ sent[w] > 0 =>
         worker[w] \in Submitting \cup {"completing"} \cup AfterCompletion
    /\ worker[w] = "exited" => releaseWorkers
    /\ worker[w] = "submitting" => sent[w] < Messages
    /\ ~canSubmit[w] => workerFailure # None \/ worker[w] = "recordPrepare"
    /\ worker[w] \in {"completing"} \cup AfterCompletion =>
         sent[w] = Messages \/ workerFailure # None

(* The start barrier was opened by the last thread, or for a launch that   *)
(* failed.                                                                 *)
Barrier ==
  startWorkers /\ created = Workers =>
    started /\ \A w \in Workers : worker[w] \in AfterReady

IInv == TypeOK /\ Phases /\ Threads /\ Barrier /\ DoneMeansAll

--------------------------------------------------------------------------------
(* Counting *)

(* Moving one thread changes the number of threads in a set of states by   *)
(* one if it enters the set, and not at all if it stays in or out.         *)
LEMMA CountMove ==
  ASSUME NEW states, NEW w \in Workers, NEW s,
         worker \in [Workers -> WorkerStates], MoveTo(w, s)
  PROVE  /\ (worker[w] \in states <=> s \in states) =>
              Count(states)' = Count(states)
         /\ worker[w] \notin states /\ s \in states =>
              Count(states)' = Count(states) + 1
<1> DEFINE S == {v \in Workers : worker[v] \in states}
           T == {v \in Workers : worker'[v] \in states}
<1>1. Count(states) = Cardinality(S) /\ Count(states)' = Cardinality(T)
  BY DEF Count
<1>2. IsFiniteSet(S)
  BY FS_Subset, GroupAssumption
<1>3. ASSUME worker[w] \in states <=> s \in states
      PROVE  S = T
  BY <1>3 DEF MoveTo
<1>4. ASSUME worker[w] \notin states, s \in states
      PROVE  T = S \cup {w} /\ w \notin S
  BY <1>4 DEF MoveTo
<1>5. w \notin S => Cardinality(S \cup {w}) = Cardinality(S) + 1
  BY <1>2, FS_AddElement
<1> QED
  BY <1>1, <1>3, <1>4, <1>5

(* A counter at the number of threads has counted every one of them.       *)
LEMMA CountAll ==
  ASSUME NEW states, Count(states) = Cardinality(Workers)
  PROVE  \A w \in Workers : worker[w] \in states
<1> DEFINE S == {v \in Workers : worker[v] \in states}
<1>1. S \in SUBSET Workers
  OBVIOUS
<1>2. Workers = S
  BY <1>1, FS_Subset, GroupAssumption DEF Count
<1> QED
  BY <1>2

--------------------------------------------------------------------------------
(* The invariant holds initially and is kept by every step. *)

(* A new group satisfies the invariant, the first one as well as the next. *)
LEMMA InitKeeps == Init => IInv
<1> SUFFICES ASSUME Init PROVE IInv
  OBVIOUS
<1> USE DEF Init
<1>1. Count(AfterReady) = 0 /\ Count(AfterCompletion) = 0
  <2>1. /\ {w \in Workers : worker[w] \in AfterReady} = {}
        /\ {w \in Workers : worker[w] \in AfterCompletion} = {}
    BY DEF AfterReady, Submitting, AfterCompletion
  <2> QED
    BY <2>1, FS_EmptySet DEF Count
<1>2. TypeOK
  <2>1. worker \in [Workers -> WorkerStates] /\ sent \in [Workers -> 0..Messages]
    BY GroupAssumption DEF WorkerStates, BeforeReady
  <2>2. main \in MainStates
    BY DEF MainStates
  <2>3. readyWorkers = Count(AfterReady) /\ completedWorkers = Count(AfterCompletion)
    BY <1>1
  <2>4. canSubmit \in [Workers -> BOOLEAN]
    OBVIOUS
  <2> QED
    BY <2>1, <2>2, <2>3, <2>4 DEF TypeOK
<1>3. Threads
  BY DEF Threads, Submitting, AfterCompletion
<1>4. Phases /\ Barrier /\ DoneMeansAll
  BY DEF Phases, Barrier, DoneMeansAll
<1> QED
  BY <1>2, <1>3, <1>4 DEF IInv

(* Steps that move one thread, and neither count it nor touch main's own   *)
(* variables, keep the counters right.                                     *)
LEMMA SameCounts ==
  ASSUME TypeOK, NEW w \in Workers, NEW s \in WorkerStates, MoveTo(w, s),
         worker[w] \in AfterReady <=> s \in AfterReady,
         worker[w] \in AfterCompletion <=> s \in AfterCompletion
  PROVE  /\ worker' \in [Workers -> WorkerStates]
         /\ Count(AfterReady)' = readyWorkers
         /\ Count(AfterCompletion)' = completedWorkers
<1>1. worker' \in [Workers -> WorkerStates]
  BY DEF MoveTo, TypeOK
<1>2. /\ Count(AfterReady)' = Count(AfterReady)
      /\ Count(AfterCompletion)' = Count(AfterCompletion)
  BY CountMove DEF TypeOK
<1> QED
  BY <1>1, <1>2 DEF TypeOK

(* Preparing, and recording a failure, count nobody.                       *)
LEMMA PrepareKeeps ==
  ASSUME IInv, NEW w \in Workers, Prepare(w) \/ RecordWorkerFailure(w)
  PROVE  IInv'
<1> USE DEF IInv
<1>1. PICK s \in {"arriving", "recordPrepare", "completing"} :
        /\ MoveTo(w, s)
        /\ s = "completing" <=> worker[w] = "recordSubmit"
        /\ s = "arriving" => worker[w] \in {"preparing", "recordPrepare"}
        /\ s = "recordPrepare" => worker[w] = "preparing"
  BY DEF Prepare, RecordWorkerFailure
<1>2. /\ worker' \in [Workers -> WorkerStates]
      /\ Count(AfterReady)' = readyWorkers
      /\ Count(AfterCompletion)' = completedWorkers
  BY <1>1, SameCounts DEF WorkerStates, BeforeReady, AfterReady,
                          Submitting, AfterCompletion
<1>3. TypeOK'
  BY <1>2 DEF TypeOK, Prepare, RecordWorkerFailure, mainVars, workerVars,
              barrierVars
<1>4. Phases' /\ DoneMeansAll'
  <2>1. producersDone => worker[w] \in AfterCompletion
    BY DEF DoneMeansAll
  <2>2. worker[w] \notin AfterCompletion
    BY DEF Prepare, RecordWorkerFailure, AfterCompletion
  <2> QED
    BY <2>1, <2>2 DEF Phases, DoneMeansAll, Prepare, RecordWorkerFailure,
                      mainVars, barrierVars
<1>5. Threads'
  <2> SUFFICES ASSUME NEW v \in Workers PROVE Threads!(v)'
    BY DEF Threads
  <2> QED
    BY <1>1, GroupAssumption
       DEF Threads, TypeOK, MoveTo, Prepare, RecordWorkerFailure,
                Submitting, AfterCompletion, mainVars, workerVars, barrierVars
<1>6. Barrier'
  BY <1>1 DEF Barrier, TypeOK, MoveTo, Prepare, RecordWorkerFailure, mainVars,
              barrierVars, AfterReady, Submitting, AfterCompletion
<1> QED
  BY <1>3, <1>4, <1>5, <1>6

(* The start barrier counts a thread when it arrives, and lets it pass     *)
(* only once it is open.                                                   *)
LEMMA StartKeeps ==
  ASSUME IInv, NEW w \in Workers, Arrive(w) \/ StartWake(w)
  PROVE  IInv'
<1> USE DEF IInv
<1>1. PICK s \in {"startWait", "submitting", "completing"} :
        /\ MoveTo(w, s)
        /\ s # "startWait" => startWorkers
        /\ s = "completing" <=> s # "startWait" /\ ~canSubmit[w]
  BY DEF Arrive, StartWake, AwaitStart
<1>2. worker' \in [Workers -> WorkerStates]
  BY <1>1 DEF MoveTo, TypeOK, WorkerStates, AfterReady, Submitting
<1>3. Count(AfterCompletion)' = completedWorkers
  BY <1>1, CountMove DEF TypeOK, Arrive, StartWake, AfterCompletion
<1>4. Count(AfterReady)' = readyWorkers'
  <2>1. CASE Arrive(w)
    BY <1>1, <2>1, CountMove
       DEF TypeOK, Arrive, AfterReady, Submitting, AfterCompletion
  <2>2. CASE StartWake(w)
    BY <1>1, <2>2, CountMove
       DEF TypeOK, StartWake, AfterReady, Submitting, AfterCompletion,
           barrierVars
  <2> QED
    BY <2>1, <2>2
<1>5. TypeOK'
  BY <1>2, <1>3, <1>4 DEF TypeOK, Arrive, StartWake, WakeMain, MainStates,
                          mainVars, workerVars, barrierVars
<1>6. Phases' /\ DoneMeansAll'
  <2>1. producersDone => worker[w] \in AfterCompletion
    BY DEF DoneMeansAll
  <2>2. worker[w] \notin AfterCompletion
    BY DEF Arrive, StartWake, AfterCompletion
  <2> QED
    BY <2>1, <2>2 DEF Phases, DoneMeansAll, Arrive, StartWake, WakeMain,
                      mainVars, workerVars, barrierVars
<1>7. Threads'
  <2> SUFFICES ASSUME NEW v \in Workers PROVE Threads!(v)'
    BY DEF Threads
  <2>1. sent[w] = 0
    BY DEF Threads, TypeOK, Arrive, StartWake, Submitting, AfterCompletion
  <2> QED
    BY <1>1, <2>1, GroupAssumption
       DEF Threads, TypeOK, MoveTo, Arrive, StartWake, Submitting,
           AfterCompletion, mainVars, workerVars, barrierVars
<1>8. Barrier'
  BY <1>1 DEF Barrier, TypeOK, MoveTo, Arrive, StartWake, mainVars,
              barrierVars, AfterReady, Submitting, AfterCompletion
<1> QED
  BY <1>5, <1>6, <1>7, <1>8

(* A message is submitted by a thread that has not submitted all.          *)
LEMMA SubmitKeeps ==
  ASSUME IInv, NEW w \in Workers, Submit(w)
  PROVE  IInv'
<1> USE DEF IInv
<1>1. PICK s \in {"submitting", "recordSubmit", "completing"} : MoveTo(w, s)
  BY DEF Submit
<1>2. /\ worker' \in [Workers -> WorkerStates]
      /\ Count(AfterReady)' = readyWorkers
      /\ Count(AfterCompletion)' = completedWorkers
  BY <1>1, SameCounts DEF Submit, WorkerStates, AfterReady, Submitting,
                          AfterCompletion
<1>3. sent[w] < Messages /\ sent[w] \in 0..Messages /\ startWorkers
  BY DEF Threads, Submit, TypeOK, Submitting
<1>4. sent' \in [Workers -> 0..Messages]
  BY <1>3, GroupAssumption DEF Submit, TypeOK
<1>5. TypeOK'
  BY <1>2, <1>4 DEF TypeOK, Submit, mainVars, barrierVars
<1>6. Phases' /\ DoneMeansAll'
  <2>1. producersDone => worker[w] \in AfterCompletion
    BY DEF DoneMeansAll
  <2>2. worker[w] \notin AfterCompletion
    BY DEF Submit, AfterCompletion
  <2> QED
    BY <2>1, <2>2 DEF Phases, DoneMeansAll, Submit, mainVars, barrierVars
<1>7. Threads'
  <2> SUFFICES ASSUME NEW v \in Workers PROVE Threads!(v)'
    BY DEF Threads
  <2> QED
    BY <1>3, GroupAssumption
       DEF Threads, TypeOK, MoveTo, Submit, Submitting, AfterCompletion,
           mainVars, barrierVars
<1>8. Barrier'
  BY <1>1 DEF Barrier, TypeOK, MoveTo, Submit, mainVars, barrierVars,
              AfterReady, Submitting, AfterCompletion
<1> QED
  BY <1>5, <1>6, <1>7, <1>8

(* Completion counts a thread that has submitted all or reported why not,  *)
(* and the thread ends only when it is released.                           *)
LEMMA CompletionKeeps ==
  ASSUME IInv, NEW w \in Workers,
         Complete(w) \/ CompletionNotify(w) \/ AwaitRelease(w)
  PROVE  IInv'
<1> USE DEF IInv
<1>1. PICK s \in AfterCompletion :
        /\ MoveTo(w, s)
        /\ s = "exited" => releaseWorkers
  BY DEF Complete, CompletionNotify, AwaitRelease, Released, AfterCompletion
<1>2. worker[w] \in {"completing"} \cup AfterCompletion
  BY DEF Complete, CompletionNotify, AwaitRelease, AfterCompletion
<1>3. worker' \in [Workers -> WorkerStates]
  BY <1>1 DEF MoveTo, TypeOK, WorkerStates, AfterReady
<1>4. Count(AfterReady)' = readyWorkers
  BY <1>1, <1>2, CountMove DEF TypeOK, AfterReady
<1>5. Count(AfterCompletion)' = completedWorkers'
  <2>1. CASE Complete(w)
    BY <1>1, <2>1, CountMove DEF TypeOK, Complete, AfterCompletion
  <2>2. CASE CompletionNotify(w) \/ AwaitRelease(w)
    BY <1>1, <2>2, CountMove
       DEF TypeOK, CompletionNotify, AwaitRelease, AfterCompletion, barrierVars
  <2> QED
    BY <2>1, <2>2
<1>6. TypeOK'
  <2>1. UNCHANGED <<mainVars, workerVars, readyWorkers, startWorkers,
                    releaseWorkers>>
    BY DEF Complete, CompletionNotify, AwaitRelease, barrierVars
  <2>2. main' \in MainStates
    BY DEF TypeOK, Complete, CompletionNotify, AwaitRelease, WakeMain,
           MainStates
  <2> QED
    BY <1>3, <1>4, <1>5, <2>1, <2>2 DEF TypeOK, mainVars, workerVars
<1>7. Phases'
  BY DEF Phases, Complete, CompletionNotify, AwaitRelease, WakeMain, mainVars,
         workerVars, barrierVars
<1>8. Threads'
  <2> SUFFICES ASSUME NEW v \in Workers PROVE Threads!(v)'
    BY DEF Threads
  <2> QED
    BY <1>1, <1>2
       DEF Threads, TypeOK, MoveTo, Complete, CompletionNotify, AwaitRelease,
           Submitting, AfterCompletion, mainVars, workerVars, barrierVars
<1>9. Barrier' /\ DoneMeansAll'
  BY <1>1 DEF Barrier, DoneMeansAll, TypeOK, MoveTo, Complete,
              CompletionNotify, AwaitRelease, mainVars, barrierVars, AfterReady
<1> QED
  BY <1>6, <1>7, <1>8, <1>9

(* A thread is created while nothing has started.                          *)
LEMMA LaunchKeeps ==
  ASSUME IInv, NEW w \in Workers, Launch(w)
  PROVE  IInv'
<1> USE DEF IInv
<1>1. worker[w] = "none" /\ MoveTo(w, "preparing")
  BY DEF Launch, Threads
<1>2. /\ worker' \in [Workers -> WorkerStates]
      /\ Count(AfterReady)' = readyWorkers
      /\ Count(AfterCompletion)' = completedWorkers
  BY <1>1, SameCounts DEF WorkerStates, BeforeReady, AfterReady, Submitting,
                          AfterCompletion
<1>3. TypeOK'
  BY <1>2 DEF TypeOK, Launch, workerVars, barrierVars
<1>4. Phases' /\ DoneMeansAll' /\ Barrier'
  BY DEF Phases, DoneMeansAll, Barrier, Launch, workerVars, barrierVars
<1>5. Threads'
  <2> SUFFICES ASSUME NEW v \in Workers PROVE Threads!(v)'
    BY DEF Threads
  <2> QED
    BY <1>1 DEF Threads, TypeOK, MoveTo, Launch, Submitting, AfterCompletion,
                workerVars, barrierVars
<1> QED
  BY <1>3, <1>4, <1>5

(* main waits for the threads: it takes the times when they are all there. *)
LEMMA AwaitKeeps ==
  ASSUME IInv, AwaitReady \/ AwaitCompletion
  PROVE  IInv'
<1> USE DEF IInv
<1>1. UNCHANGED <<outcome, destroying, created, worker, workerVars,
                  readyWorkers, completedWorkers, releaseWorkers>>
  BY DEF AwaitReady, AwaitCompletion, barrierVars
<1>2. Count(AfterReady)' = Count(AfterReady)
      /\ Count(AfterCompletion)' = Count(AfterCompletion)
  BY <1>1 DEF Count
<1>3. TypeOK'
  <2>1. main' \in MainStates /\ started' \in BOOLEAN
        /\ producersDone' \in BOOLEAN /\ startWorkers' \in BOOLEAN
    BY DEF TypeOK, AwaitReady, AwaitCompletion, MainStates, barrierVars
  <2> QED
    BY <1>1, <1>2, <2>1 DEF TypeOK, workerVars
<1>4. Phases'
  BY <1>1 DEF Phases, AwaitReady, AwaitCompletion, workerVars, barrierVars
<1>5. Threads'
  <2>1. startWorkers => startWorkers'
    BY DEF AwaitReady, AwaitCompletion, barrierVars
  <2> QED
    BY <1>1, <2>1 DEF Threads, workerVars
<1>6. Barrier'
  <2>1. CASE UNCHANGED startWorkers
    BY <1>1, <2>1 DEF Barrier, AwaitReady, AwaitCompletion
  <2>2. CASE startWorkers' # startWorkers
    <3>1. started' /\ readyWorkers = Cardinality(Workers)
      BY <2>2 DEF AwaitReady, AwaitCompletion, barrierVars
    <3>2. \A w \in Workers : worker[w] \in AfterReady
      BY <3>1, CountAll DEF TypeOK
    <3> QED
      BY <1>1, <3>1, <3>2 DEF Barrier
  <2> QED
    BY <2>1, <2>2
<1>7. DoneMeansAll'
  <2>1. CASE UNCHANGED producersDone
    BY <1>1, <2>1 DEF DoneMeansAll
  <2>2. CASE producersDone' # producersDone
    <3>1. completedWorkers = Cardinality(Workers)
      BY <2>2 DEF AwaitReady, AwaitCompletion, AllCompleted
    <3>2. \A w \in Workers : worker[w] \in AfterCompletion
      BY <3>1, CountAll DEF TypeOK
    <3> QED
      BY <1>1, <3>2 DEF DoneMeansAll
  <2> QED
    BY <2>1, <2>2
<1> QED
  BY <1>3, <1>4, <1>5, <1>6, <1>7

(* Wakeups, sent or without cause, change no counter and no flag.          *)
LEMMA NotifyKeeps ==
  ASSUME IInv, AbortNotify \/ StartNotify \/ ReleaseNotify \/ SpuriousWake
  PROVE  IInv'
<1> USE DEF IInv
<1>1. UNCHANGED <<mainVars, workerVars, barrierVars>>
  BY DEF AbortNotify, StartNotify, ReleaseNotify, SpuriousWake
<1>2. \A w \in Workers :
        \/ worker'[w] = worker[w]
        \/ worker[w] = "startWait" /\ worker'[w] = "startWoken"
        \/ worker[w] = "releaseWait" /\ worker'[w] = "releaseWoken"
  BY DEF AbortNotify, StartNotify, ReleaseNotify, SpuriousWake, WakeWorkers,
         MoveTo, TypeOK
<1>3. worker' \in [Workers -> WorkerStates]
  BY DEF AbortNotify, StartNotify, ReleaseNotify, SpuriousWake, WakeWorkers,
         MoveTo, TypeOK, WorkerStates, AfterReady, AfterCompletion
<1>4. Count(AfterReady)' = readyWorkers /\ Count(AfterCompletion)' = completedWorkers
  <2>1. {w \in Workers : worker'[w] \in AfterReady}
          = {w \in Workers : worker[w] \in AfterReady}
    BY <1>2 DEF AfterReady, AfterCompletion
  <2>2. {w \in Workers : worker'[w] \in AfterCompletion}
          = {w \in Workers : worker[w] \in AfterCompletion}
    BY <1>2 DEF AfterCompletion
  <2> QED
    BY <2>1, <2>2 DEF TypeOK, Count
<1>5. TypeOK'
  <2>1. main' \in MainStates
    BY DEF AbortNotify, StartNotify, ReleaseNotify, SpuriousWake, MainStates,
           TypeOK
  <2> QED
    BY <1>1, <1>3, <1>4, <2>1 DEF TypeOK, mainVars, workerVars, barrierVars
<1>6. Phases'
  BY <1>1 DEF Phases, AbortNotify, StartNotify, ReleaseNotify, SpuriousWake,
              mainVars, workerVars, barrierVars
<1>7. Threads'
  <2> SUFFICES ASSUME NEW v \in Workers PROVE Threads!(v)'
    BY DEF Threads
  <2> QED
    BY <1>1, <1>2 DEF Threads, Submitting, AfterCompletion, mainVars,
                      workerVars, barrierVars
<1>8. Barrier' /\ DoneMeansAll'
  BY <1>1, <1>2 DEF Barrier, DoneMeansAll, mainVars, barrierVars, AfterReady,
                    AfterCompletion
<1> QED
  BY <1>5, <1>6, <1>7, <1>8

(* The other steps of main: a launch that failed, and what follows the     *)
(* measurement.                                                            *)
LEMMA MainKeeps ==
  ASSUME IInv,
         \/ LaunchFails \/ RethrowWorkerFailure \/ Drain \/ Release \/ Join
  PROVE  IInv'
<1> USE DEF IInv
<1>1. UNCHANGED <<created, started, producersDone, worker, workerVars,
                  readyWorkers, completedWorkers>>
  BY DEF LaunchFails, RethrowWorkerFailure, Drain, Release, Join, mainVars,
         barrierVars
<1>2. Count(AfterReady)' = Count(AfterReady)
      /\ Count(AfterCompletion)' = Count(AfterCompletion)
  BY <1>1 DEF Count
<1>3. TypeOK'
  <2>1. /\ main' \in MainStates /\ outcome' \in {"none", "returned", "threw"}
        /\ destroying' \in BOOLEAN
        /\ startWorkers' \in BOOLEAN /\ releaseWorkers' \in BOOLEAN
    BY DEF TypeOK, LaunchFails, RethrowWorkerFailure, Drain, Release, Join,
           MainStates, mainVars, barrierVars
  <2> QED
    BY <1>1, <1>2, <2>1 DEF TypeOK, workerVars
<1>4. Phases'
  BY <1>1 DEF Phases, LaunchFails, RethrowWorkerFailure, Drain, Release, Join,
              mainVars, workerVars, barrierVars
<1>5. (startWorkers => startWorkers') /\ (releaseWorkers => releaseWorkers')
  BY DEF LaunchFails, RethrowWorkerFailure, Drain, Release, Join, barrierVars
<1>6. Threads'
  BY <1>1, <1>5 DEF Threads, workerVars
<1>7. Barrier' /\ DoneMeansAll'
  BY <1>1 DEF Barrier, DoneMeansAll, LaunchFails, RethrowWorkerFailure, Drain,
              Release, Join, barrierVars
<1> QED
  BY <1>3, <1>4, <1>6, <1>7

(* Every step keeps the invariant.                                         *)
LEMMA NextKeeps == IInv /\ [Next]_vars => IInv'
<1> SUFFICES ASSUME IInv, [Next]_vars PROVE IInv'
  OBVIOUS
<1>1. CASE MainStep
  BY <1>1, LaunchKeeps, AwaitKeeps, NotifyKeeps, MainKeeps DEF MainStep
<1>2. ASSUME NEW w \in Workers, WorkerStep(w)
      PROVE  IInv'
  BY <1>2, PrepareKeeps, StartKeeps, SubmitKeeps, CompletionKeeps
     DEF WorkerStep
<1>3. CASE NextRun
  <2>1. Init'
    BY <1>3 DEF NextRun, Init
  <2>2. (Init => IInv)'
    BY InitKeeps, PTL
  <2> QED
    BY <2>1, <2>2
<1>4. CASE SpuriousWake
  BY <1>4, NotifyKeeps
<1>5. CASE UNCHANGED vars
  <2> USE <1>5 DEF vars, mainVars, workerVars, barrierVars
  <2>1. TypeOK'
    BY DEF IInv, TypeOK, Count
  <2>2. Phases' /\ Threads' /\ Barrier' /\ DoneMeansAll'
    BY DEF IInv, Phases, Threads, Barrier, DoneMeansAll
  <2> QED
    BY <2>1, <2>2 DEF IInv
<1> QED
  BY <1>1, <1>2, <1>3, <1>4, <1>5 DEF Next

(* The invariant holds in every reachable state.                           *)
LEMMA Invariance == Spec => []IInv
<1> QED
  BY InitKeeps, NextKeeps, PTL DEF Spec

--------------------------------------------------------------------------------
(* Theorems *)

(* readyWorkers_ and completedWorkers_ count every thread that has passed  *)
(* their barriers once, whatever it was woken for, and all members keep    *)
(* their types.                                                            *)
THEOREM GroupTypeCorrect == Spec => []TypeOK
<1>1. IInv => TypeOK
  BY DEF IInv
<1> QED
  BY <1>1, Invariance, PTL

(* However many threads there are, nobody submits before all are prepared  *)
(* and the time was taken, unless a thread could not be created.           *)
THEOREM StartCorrect == Spec => []StartTogether
<1>1. IInv => StartTogether
  BY DEF IInv, StartTogether, Threads, Barrier
<1> QED
  BY <1>1, Invariance, PTL

(* The time that ends the measurement is taken after the last submission   *)
(* of every thread.                                                        *)
THEOREM DoneCorrect == Spec => []DoneMeansAll
<1>1. IInv => DoneMeansAll
  BY DEF IInv
<1> QED
  BY <1>1, Invariance, PTL

(* No producer thread ends before the logger has been drained.             *)
THEOREM DrainCorrect == Spec => []ThreadsOutliveDrain
<1>1. IInv => ThreadsOutliveDrain
  BY DEF IInv, ThreadsOutliveDrain, Phases, Threads, DoneMeansAll,
         AfterCompletion
<1> QED
  BY <1>1, Invariance, PTL

(* start() returns only if every thread has submitted every message.       *)
THEOREM FailureCorrect == Spec => []NoFailureSwallowed
<1>1. IInv => NoFailureSwallowed
  BY DEF IInv, NoFailureSwallowed, Phases, Threads, DoneMeansAll
<1> QED
  BY <1>1, Invariance, PTL
================================================================================

----------------------------- MODULE ProducerGroup -----------------------------
(***************************************************************************)
(* ProducerGroup of benchmark/common/BenchmarkHarness.h: the thread of     *)
(* runOnce() starts producer threads, has them begin together, waits until *)
(* all have submitted their messages, drains the logger, and only then     *)
(* lets the threads end.  Three barriers, each a mutex, a flag or counter  *)
(* and a condition variable; preparing, submitting and creating a thread   *)
(* may fail.                                                               *)
(*                                                                         *)
(* Grain of atomicity, as in BlockingQueue: what a thread does while it    *)
(* holds a mutex, up to unlocking it or going to sleep, is one action, and *)
(* a notification sent after unlocking is another.                         *)
(***************************************************************************)
EXTENDS Naturals, FiniteSets

CONSTANTS
  Workers,        (* the producer threads: options_.threadCount of them    *)
  Messages,       (* options_.messagesPerThread                            *)
  None,           (* workerFailure_ == nullptr                             *)
  MayFail         (* whether thread creation, prepare_(), submit_() and    *)
                  (* draining may throw                                    *)

ASSUME GroupAssumption ==
  /\ IsFiniteSet(Workers) /\ Workers # {}
  /\ Messages \in Nat \ {0}
  /\ None \notin Workers
  /\ MayFail \in BOOLEAN

VARIABLES
  main,             (* where the thread that runs runOnce() is             *)
  outcome,          (* start() has returned, or it or draining has thrown  *)
  destroying,       (* releaseAndJoin() is called by the destructor        *)
  created,          (* the threads in workers_                             *)
  worker,           (* where each of them is in workerLoop()               *)
  canSubmit,        (* its canSubmit                                       *)
  sent,             (* how many messages it has submitted                  *)
  readyWorkers,     (* readyWorkers_                                       *)
  startWorkers,     (* startWorkers_                                       *)
  completedWorkers, (* completedWorkers_                                   *)
  releaseWorkers,   (* releaseWorkers_                                     *)
  workerFailure,    (* workerFailure_: the thread that threw first         *)
  started,          (* started_ was taken                                  *)
  producersDone     (* producersDone_ was taken                            *)

mainVars == <<outcome, destroying, created, started, producersDone>>
workerVars == <<canSubmit, sent, workerFailure>>
barrierVars == <<readyWorkers, startWorkers, completedWorkers, releaseWorkers>>
vars == <<main, mainVars, worker, workerVars, barrierVars>>

BeforeReady == {"none", "preparing", "recordPrepare", "arriving"}
Submitting == {"submitting", "recordSubmit"}
AfterCompletion == {"doneNotify", "releasing", "releaseWait", "releaseWoken",
                    "exited"}
AfterReady == {"startWait", "startWoken", "completing"} \cup Submitting
              \cup AfterCompletion
WorkerStates == BeforeReady \cup AfterReady
MainStates == {"launching", "abortNotify", "readyWait", "readyWoken",
               "startNotify", "awaitDone", "doneWait", "doneWoken", "rethrow",
               "draining", "release", "releaseNotify", "joining", "destroyed"}

(* How many threads are in one of some states *)
Count(states) == Cardinality({w \in Workers : worker[w] \in states})

MoveTo(w, state) == worker' = [worker EXCEPT ![w] = state]

(* notify_all *)
WakeWorkers(asleep, woken) ==
  worker' = [w \in Workers |-> IF worker[w] = asleep THEN woken ELSE worker[w]]

(* notify_one on a condition variable in which only main ever waits *)
WakeMain(asleep, woken) == main' = IF main = asleep THEN woken ELSE main

--------------------------------------------------------------------------------
(* A producer thread: workerLoop() *)

Prepare_LosesFailure(w) ==
  /\ worker[w] = "preparing"
  /\ \/ MoveTo(w, "arriving") /\ UNCHANGED canSubmit
     \/ /\ MayFail
        /\ MoveTo(w, "arriving")
        /\ canSubmit' = [canSubmit EXCEPT ![w] = FALSE]
  /\ UNCHANGED <<main, mainVars, sent, workerFailure, barrierVars>>

Prepare(w) ==
  /\ worker[w] = "preparing"
  /\ \/ MoveTo(w, "arriving") /\ UNCHANGED canSubmit
     \/ /\ MayFail
        /\ MoveTo(w, "recordPrepare")
        /\ canSubmit' = [canSubmit EXCEPT ![w] = FALSE]
  /\ UNCHANGED <<main, mainVars, sent, workerFailure, barrierVars>>

(* recordWorkerFailure(), in either place: the first failure stays.        *)
RecordWorkerFailure(w) ==
  /\ \/ worker[w] = "recordPrepare" /\ MoveTo(w, "arriving")
     \/ worker[w] = "recordSubmit" /\ MoveTo(w, "completing")
  /\ workerFailure' = IF workerFailure = None THEN w ELSE workerFailure
  /\ UNCHANGED <<main, mainVars, canSubmit, sent, barrierVars>>

AwaitStart_DoesNotWait(w) ==
  MoveTo(w, IF canSubmit[w] THEN "submitting" ELSE "completing")

(* startCondition_.wait() and what follows it *)
AwaitStart(w) ==
  \/ ~startWorkers /\ MoveTo(w, "startWait")
  \/ startWorkers /\ canSubmit[w] /\ MoveTo(w, "submitting")
  \/ startWorkers /\ ~canSubmit[w] /\ MoveTo(w, "completing")

(* The start barrier, entered under startMutex_ *)
Arrive(w) ==
  /\ worker[w] = "arriving"
  /\ readyWorkers' = readyWorkers + 1
  /\ WakeMain("readyWait", "readyWoken")
  /\ AwaitStart(w)
  /\ UNCHANGED <<mainVars, workerVars, startWorkers, completedWorkers,
                 releaseWorkers>>

StartWake_CountsAgain(w) ==
  /\ worker[w] = "startWoken"
  /\ readyWorkers' = readyWorkers + 1
  /\ AwaitStart(w)
  /\ UNCHANGED <<main, mainVars, workerVars, startWorkers, completedWorkers,
                 releaseWorkers>>

StartWake(w) ==
  /\ worker[w] = "startWoken"
  /\ AwaitStart(w)
  /\ UNCHANGED <<main, mainVars, workerVars, barrierVars>>

(* submit_(), messagesPerThread times or until it throws *)
Submit(w) ==
  /\ worker[w] = "submitting"
  /\ \/ /\ sent' = [sent EXCEPT ![w] = @ + 1]
        /\ MoveTo(w, IF sent[w] + 1 = Messages THEN "completing"
                     ELSE "submitting")
     \/ MayFail /\ MoveTo(w, "recordSubmit") /\ UNCHANGED sent
  /\ UNCHANGED <<main, mainVars, canSubmit, workerFailure, barrierVars>>

Complete(w) ==
  /\ worker[w] = "completing"
  /\ completedWorkers' = completedWorkers + 1
  /\ MoveTo(w, "doneNotify")
  /\ UNCHANGED <<main, mainVars, workerVars, readyWorkers, startWorkers,
                 releaseWorkers>>

CompletionNotify(w) ==
  /\ worker[w] = "doneNotify"
  /\ WakeMain("doneWait", "doneWoken")
  /\ MoveTo(w, "releasing")
  /\ UNCHANGED <<mainVars, workerVars, barrierVars>>

Released_WithStart == startWorkers
Released == releaseWorkers

(* releaseCondition_.wait(), and the end of the thread *)
AwaitRelease(w) ==
  /\ worker[w] \in {"releasing", "releaseWoken"}
  /\ MoveTo(w, IF Released THEN "exited" ELSE "releaseWait")
  /\ UNCHANGED <<main, mainVars, workerVars, barrierVars>>

WorkerStep(w) ==
  \/ Prepare(w) \/ RecordWorkerFailure(w) \/ Arrive(w) \/ StartWake(w)
  \/ Submit(w) \/ Complete(w) \/ CompletionNotify(w) \/ AwaitRelease(w)

--------------------------------------------------------------------------------
(* The thread of runOnce(): start(), that is launchAndWaitForCompletion() *)

Launch(w) ==
  /\ main = "launching" /\ w \notin created
  /\ created' = created \cup {w}
  /\ MoveTo(w, "preparing")
  /\ UNCHANGED <<main, outcome, destroying, started, producersDone, workerVars,
                 barrierVars>>

LaunchFails_NoStart ==
  /\ main = "launching" /\ created # Workers /\ MayFail
  /\ outcome' = "threw"
  /\ main' = "abortNotify"
  /\ UNCHANGED <<destroying, created, started, producersDone, worker,
                 workerVars, barrierVars>>

(* A thread cannot be created: those that exist are let through the start. *)
LaunchFails ==
  /\ main = "launching" /\ created # Workers /\ MayFail
  /\ outcome' = "threw"
  /\ startWorkers' = TRUE
  /\ main' = "abortNotify"
  /\ UNCHANGED <<destroying, created, started, producersDone, worker,
                 workerVars, readyWorkers, completedWorkers, releaseWorkers>>

AbortNotify ==
  /\ main = "abortNotify"
  /\ WakeWorkers("startWait", "startWoken")
  /\ main' = "release"
  /\ UNCHANGED <<mainVars, workerVars, barrierVars>>

(* readyCondition_.wait(), and the start *)
AwaitReady ==
  /\ \/ main = "launching" /\ created = Workers
     \/ main = "readyWoken"
  /\ \/ /\ readyWorkers = Cardinality(Workers)
        /\ started' = TRUE
        /\ startWorkers' = TRUE
        /\ main' = "startNotify"
     \/ /\ readyWorkers # Cardinality(Workers)
        /\ main' = "readyWait"
        /\ UNCHANGED <<started, startWorkers>>
  /\ UNCHANGED <<outcome, destroying, created, producersDone, worker,
                 workerVars, readyWorkers, completedWorkers, releaseWorkers>>

StartNotify ==
  /\ main = "startNotify"
  /\ WakeWorkers("startWait", "startWoken")
  /\ main' = "awaitDone"
  /\ UNCHANGED <<mainVars, workerVars, barrierVars>>

AllCompleted_OffByOne == completedWorkers + 1 >= Cardinality(Workers)
AllCompleted == completedWorkers = Cardinality(Workers)

AwaitCompletion ==
  /\ main \in {"awaitDone", "doneWoken"}
  /\ \/ /\ AllCompleted
        /\ producersDone' = TRUE
        /\ main' = "rethrow"
     \/ /\ ~AllCompleted
        /\ main' = "doneWait"
        /\ UNCHANGED producersDone
  /\ UNCHANGED <<outcome, destroying, created, started, worker, workerVars,
                 barrierVars>>

(* rethrowWorkerFailure(): start() returns, or releases and throws. *)
RethrowWorkerFailure ==
  /\ main = "rethrow"
  /\ \/ workerFailure = None /\ outcome' = "returned" /\ main' = "draining"
     \/ workerFailure # None /\ outcome' = "threw" /\ main' = "release"
  /\ UNCHANGED <<destroying, created, started, producersDone, worker,
                 workerVars, barrierVars>>

(* The logger is drained; a driver whose drain throws goes on to the       *)
(* destructor, or as quill_benchmark.cpp does releases explicitly first.   *)
Drain ==
  /\ main = "draining"
  /\ main' = "release"
  /\ \/ UNCHANGED <<outcome, destroying>>
     \/ MayFail /\ outcome' = "threw" /\ destroying' \in BOOLEAN
  /\ UNCHANGED <<created, started, producersDone, worker, workerVars,
                 barrierVars>>

(* releaseAndJoin(), called explicitly and again by the destructor *)
Release ==
  /\ main = "release"
  /\ releaseWorkers' = TRUE
  /\ main' = "releaseNotify"
  /\ UNCHANGED <<mainVars, worker, workerVars, readyWorkers, startWorkers,
                 completedWorkers>>

ReleaseNotify ==
  /\ main = "releaseNotify"
  /\ WakeWorkers("releaseWait", "releaseWoken")
  /\ main' = "joining"
  /\ UNCHANGED <<mainVars, workerVars, barrierVars>>

Join ==
  /\ main = "joining"
  /\ \A w \in created : worker[w] = "exited"
  /\ main' = IF destroying THEN "destroyed" ELSE "release"
  /\ destroying' = TRUE
  /\ UNCHANGED <<outcome, created, started, producersDone, worker, workerVars,
                 barrierVars>>

MainStep ==
  \/ \E w \in Workers : Launch(w)
  \/ LaunchFails \/ AbortNotify \/ AwaitReady \/ StartNotify
  \/ AwaitCompletion \/ RethrowWorkerFailure \/ Drain
  \/ Release \/ ReleaseNotify \/ Join

--------------------------------------------------------------------------------

Init ==
  /\ main = "launching" /\ outcome = "none" /\ destroying = FALSE
  /\ created = {}
  /\ worker = [w \in Workers |-> "none"]
  /\ canSubmit = [w \in Workers |-> TRUE]
  /\ sent = [w \in Workers |-> 0]
  /\ readyWorkers = 0 /\ completedWorkers = 0
  /\ startWorkers = FALSE /\ releaseWorkers = FALSE
  /\ workerFailure = None
  /\ started = FALSE /\ producersDone = FALSE

(* runProfile(): the next run has a group of its own; after an exception   *)
(* there is none.                                                          *)
NextRun ==
  /\ main = "destroyed" /\ outcome = "returned"
  /\ main' = "launching" /\ outcome' = "none" /\ destroying' = FALSE
  /\ created' = {}
  /\ worker' = [w \in Workers |-> "none"]
  /\ canSubmit' = [w \in Workers |-> TRUE]
  /\ sent' = [w \in Workers |-> 0]
  /\ readyWorkers' = 0 /\ completedWorkers' = 0
  /\ startWorkers' = FALSE /\ releaseWorkers' = FALSE
  /\ workerFailure' = None
  /\ started' = FALSE /\ producersDone' = FALSE

(* The C++ standard lets a wait return without a notification. *)
SpuriousWake ==
  \/ /\ \E w \in Workers :
          \/ worker[w] = "startWait" /\ MoveTo(w, "startWoken")
          \/ worker[w] = "releaseWait" /\ MoveTo(w, "releaseWoken")
     /\ UNCHANGED <<main, mainVars, workerVars, barrierVars>>
  \/ /\ \/ main = "readyWait" /\ main' = "readyWoken"
        \/ main = "doneWait" /\ main' = "doneWoken"
     /\ UNCHANGED <<mainVars, worker, workerVars, barrierVars>>

Next == MainStep \/ (\E w \in Workers : WorkerStep(w)) \/ NextRun \/ SpuriousWake

Spec == Init /\ [][Next]_vars

(* Threads run, mutexes are granted, and prepare_() and submit_() return.  *)
FairSpec ==
  Spec /\ WF_vars(MainStep) /\ \A w \in Workers : WF_vars(WorkerStep(w))

--------------------------------------------------------------------------------

(* The types of the header; each counter counts every thread that has      *)
(* passed its barrier, and counts it once.                                 *)
TypeOK ==
  /\ main \in MainStates /\ outcome \in {"none", "returned", "threw"}
  /\ destroying \in BOOLEAN
  /\ created \subseteq Workers
  /\ worker \in [Workers -> WorkerStates]
  /\ canSubmit \in [Workers -> BOOLEAN]
  /\ sent \in [Workers -> 0..Messages]
  /\ readyWorkers = Count(AfterReady)
  /\ completedWorkers = Count(AfterCompletion)
  /\ startWorkers \in BOOLEAN /\ releaseWorkers \in BOOLEAN
  /\ workerFailure \in Workers \cup {None}
  /\ started \in BOOLEAN /\ producersDone \in BOOLEAN

(* Unless a thread could not be created, nobody submits before the time    *)
(* was taken that starts the measurement, and not before every thread has  *)
(* finished what it prepares: preparing is not measured.                   *)
StartTogether ==
  created = Workers /\ (\E w \in Workers : worker[w] \in Submitting \/ sent[w] > 0)
    => started /\ \A w \in Workers : worker[w] \in AfterReady

(* The time that ends the measurement is taken when every thread has made  *)
(* its last submission, and none submits after it.                         *)
DoneMeansAll ==
  producersDone => \A w \in Workers : worker[w] \in AfterCompletion

(* "threads are released after the logger has drained": while the logger   *)
(* is drained every producer thread, and what is local to it, exists.      *)
ThreadsOutliveDrain ==
  main = "draining" => \A w \in Workers : worker[w] \notin {"none", "exited"}

(* start() returns only if every thread has submitted every message: a     *)
(* failure anywhere, in however many threads, is thrown.                   *)
NoFailureSwallowed ==
  outcome = "returned" => \A w \in Workers : sent[w] = Messages

(* A run comes to an end, with all its threads joined: whichever thread    *)
(* cannot be created and whatever throws, nobody waits at a barrier for    *)
(* ever.                                                                   *)
RunEnds == main = "launching" ~> main = "destroyed"
================================================================================

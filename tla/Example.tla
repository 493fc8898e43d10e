--------------------------------- MODULE Example ---------------------------------
(***************************************************************************)
(* The program of examples/example.cpp on top of Logger: main() starts the *)
(* logger, creates threads that log, joins them, logs again and stops the  *)
(* logger.  main() is one thread: as Main it logs, as the only controller  *)
(* it calls init() and stop().                                             *)
(***************************************************************************)
EXTENDS Logger

CONSTANTS
  Main,     (* the producer that is main()                                 *)
  Messages  (* kMessagesPerThread                                          *)

ASSUME ExampleAssumption ==
  /\ Main \in Producers /\ Messages \in 1..MaxCalls
  /\ MaxCalls >= 5 /\ Cardinality(Controllers) = 1 /\ 1..4 \subseteq Levels

VARIABLES
  main,    (* where main() is                                              *)
  thread   (* per thread of `workers`: "none", "running", "joinable" when  *)
           (* its function has returned, "joined"                          *)

exampleVars == <<vars, main, thread>>

Threads == Producers \ {Main}
Control == CHOOSE k \in Controllers : TRUE

(* The call that main() or a thread is in has returned                     *)
Ready(p) ==
  /\ logging[p] = "idle" /\ pc[p] = "idle"
  /\ p = Main => control[Control] = "idle"

(* LOG_INFO is 1, LOG_WARN 2, LOG_ERROR 3, LOG_FATAL 4.                    *)
Statement ==
  [started |-> [level |-> 1, next |-> "spawn"],
   spawned |-> [level |-> 2, next |-> "join"],
   joined  |-> [level |-> 2, next |-> "error"],
   error   |-> [level |-> 3, next |-> "fatal"],
   fatal   |-> [level |-> 4, next |-> "stop"]]

--------------------------------------------------------------------------------
CallInit ==
  /\ main = "init" /\ main' = "initialized"
  /\ \E cf \in Configs : InitCall(Control, cf)
  /\ UNCHANGED thread

InitReturned ==
  /\ main = "initialized" /\ Ready(Main)
  /\ main' = IF returned[Control] = "true" THEN "started" ELSE "ended"
  /\ UNCHANGED <<vars, thread>>

MainLogs ==
  /\ main \in DOMAIN Statement /\ Ready(Main)
  /\ ShouldLog(Main, Statement[main].level)
  /\ main' = Statement[main].next
  /\ UNCHANGED thread

(* emplace_back(): the thread is created, or std::thread throws            *)
Spawn ==
  /\ main = "spawn" /\ Ready(Main)
  /\ \/ /\ LET t == CHOOSE t \in Threads : thread[t] = "none"
           IN thread' = [thread EXCEPT ![t] = "running"]
        /\ main' = IF \E t \in Threads : thread'[t] = "none" THEN main ELSE "spawned"
     \/ /\ InitMayFail /\ main' = "abandon"
        /\ UNCHANGED thread
  /\ UNCHANGED vars

AfterJoin == IF main = "abandon" THEN "stop" ELSE "joined"

(* joinWorkers(), in the handler of a failure too                          *)
JoinWorkers_DoesNotWait ==
  /\ main \in {"join", "abandon"} /\ Ready(Main)
  /\ main' = AfterJoin
  /\ UNCHANGED <<vars, thread>>

JoinWorkers ==
  /\ main \in {"join", "abandon"} /\ Ready(Main)
  /\ \A t \in Threads : thread[t] \in {"none", "joinable"}
  /\ thread' = [t \in Threads |-> IF thread[t] = "none" THEN "none" ELSE "joined"]
  /\ main' = AfterJoin
  /\ UNCHANGED vars

CallStop ==
  /\ main = "stop" /\ Ready(Main) /\ main' = "stopping"
  /\ Stop(Control)
  /\ UNCHANGED thread

StopReturned ==
  /\ main = "stopping" /\ Ready(Main) /\ main' = "ended"
  /\ UNCHANGED <<vars, thread>>

MainStep ==
  \/ CallInit \/ InitReturned \/ MainLogs \/ Spawn \/ JoinWorkers \/ CallStop
  \/ StopReturned

ThreadStep(t) ==
  /\ thread[t] = "running" /\ Ready(t)
  /\ \/ calls[t] < Messages /\ ShouldLog(t, 1) /\ UNCHANGED thread
     \/ /\ calls[t] = Messages
        /\ thread' = [thread EXCEPT ![t] = "joinable"]
        /\ UNCHANGED vars
  /\ UNCHANGED main

(* What the Logger does by itself, and in the calls under way              *)
LoggerStep ==
  \/ \E p \in Producers : ProducerStep(p)
  \/ WorkerStep \/ WorkerTimeout \/ Tick
  \/ \E k \in Controllers : ControlStep(k)
  \/ \E t \in Q!Threads : CloseNotify(t) \/ SpuriousWake(t)

ExampleInit == Init /\ main = "init" /\ thread = [t \in Threads |-> "none"]

ExampleNext ==
  \/ MainStep
  \/ \E t \in Threads : ThreadStep(t)
  \/ LoggerStep /\ UNCHANGED <<main, thread>>
  \/ main = "ended" /\ UNCHANGED exampleVars

ExampleSpec == ExampleInit /\ [][ExampleNext]_exampleVars

--------------------------------------------------------------------------------
(* The order the program gives two records, whoever logged them: main()    *)
(* logs its first record before it creates threads, and from the third on  *)
(* after it has joined them.                                               *)
Before(a, b) ==
  \/ a.by = b.by /\ a.number < b.number
  \/ a.by = Main /\ a.number = 1 /\ b.by # Main
  \/ a.by # Main /\ b.by = Main /\ b.number >= 3

(* No line is above one of a record that the program logged before it,     *)
(* although many threads feed one queue: main() is right to log that "all  *)
(* worker threads finished" below their last lines.                        *)
LinesInProgramOrder ==
  \A s \in DOMAIN written : \A i, j \in DOMAIN written[s] :
    i < j => ~Before(written[s][j].value, written[s][i].value)

(* With Block the "dropped=0" printed at the end is true, and it is when a *)
(* thread could not be created: every call of main() and of the threads it *)
(* did create was accepted before stop().  What is not in the sink is the  *)
(* end of it that the worker may leave in the queue under Periodic (see    *)
(* logger_periodic_drain).                                                 *)
EndsComplete ==
  main = "ended" /\ returned[Control] = "none" /\ fault = "none" =>
    /\ droppedCount = 0 /\ ~sinksOpen
    /\ Len(accepted) =
         calls[Main] + Messages * Cardinality({t \in Threads : thread[t] # "none"})
    /\ \A s \in DOMAIN written : written[s] \o queue = accepted
================================================================================

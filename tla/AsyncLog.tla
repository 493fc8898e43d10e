-------------------------------- MODULE AsyncLog --------------------------------
(***************************************************************************)
(* What the Logger promises the application, without queue, locks and      *)
(* worker: an asynchronous log that is opened and closed, accepts records, *)
(* and delivers them later and in order.  README_EN.md, "Concurrency and   *)
(* lifecycle", for stop(); LoggerContract shows that Logger implements it. *)
(***************************************************************************)
EXTENDS Naturals, Sequences

VARIABLES
  state,     (* "off", "open", "closing", or "broken": a sink has thrown   *)
  pending,   (* the records accepted and not delivered                     *)
  delivered  (* those delivered since the log was opened                   *)

vars == <<state, pending, delivered>>

Without(s, i) == SubSeq(s, 1, i - 1) \o SubSeq(s, i + 1, Len(s))

Open ==
  /\ state = "off" /\ state' = "open"
  /\ pending' = <<>> /\ delivered' = <<>>

(* A record is accepted, in place of an older one under DropOldest.        *)
Accept ==
  /\ state \in {"open", "broken"}
  /\ pending' # <<>>
  /\ LET older == SubSeq(pending', 1, Len(pending') - 1) IN
       older = pending \/ \E i \in DOMAIN pending : older = Without(pending, i)
  /\ UNCHANGED <<state, delivered>>

(* The first n records go from pending to delivered. *)
Move(n) ==
  /\ n <= Len(pending)
  /\ delivered' = delivered \o SubSeq(pending, 1, n)

Deliver ==
  /\ state \in {"open", "closing"}
  /\ \E n \in 1..Len(pending) :
       Move(n) /\ pending' = SubSeq(pending, n + 1, Len(pending))
  /\ UNCHANGED state

Close == state = "open" /\ state' = "closing" /\ UNCHANGED <<pending, delivered>>

(* stop() drains what was accepted: nothing is pending when it is done.    *)
Finish ==
  /\ state \in {"open", "closing"} /\ pending = <<>> /\ state' = "off"
  /\ UNCHANGED <<pending, delivered>>

(* A fault: a part of the batch is delivered, the rest of it is lost.      *)
Break ==
  /\ state \in {"open", "closing"} /\ state' = "broken"
  /\ \E m \in 0..Len(pending) :
       /\ pending' = SubSeq(pending, m + 1, Len(pending))
       /\ \E n \in 0..m : Move(n)

Abandon ==
  state = "broken" /\ state' = "off" /\ UNCHANGED <<pending, delivered>>

Init == state = "off" /\ pending = <<>> /\ delivered = <<>>

Next ==
  Open \/ Accept \/ Deliver \/ Close \/ Finish \/ Break \/ Abandon

(* Nothing stays pending, and nothing half closed; nobody has to call.     *)
Fairness ==
  /\ WF_vars(pending # <<>> /\ (Deliver \/ Break))
  /\ WF_vars(state \in {"closing", "broken"} /\ (Deliver \/ Break \/ Finish \/ Abandon))

Spec == Init /\ [][Next]_vars /\ Fairness
================================================================================

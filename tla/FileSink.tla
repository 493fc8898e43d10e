------------------------------- MODULE FileSink -------------------------------
(***************************************************************************)
(* The rolling file sink of src/LogSink.cpp: one writer, the file system   *)
(* it appends to, the clock that decides the date, I/O that may fail, and  *)
(* a process that may crash and start again over the files it left.        *)
(*                                                                         *)
(* A formatted record is its size in bytes, the final newline included.    *)
(* writeBatch() takes one step for each call of openNewLogFile() and for   *)
(* each record it appends to pending_, so that the date may change and the *)
(* process may crash in between.                                           *)
(***************************************************************************)
EXTENDS Integers, Sequences

CONSTANTS
  Sizes,        (* the sizes of records                                    *)
  MaxFileSize,  (* maxFileSize_                                            *)
  Width,        (* size_t has Width values                                 *)
  MaxBatch,     (* bound: records of one batch                             *)
  MaxRecords,   (* bound: records given to one sink                        *)
  MaxIndex,     (* bound: the largest fileIndex_                           *)
  MaxDate,      (* bound: the last day                                     *)
  MaxLives,     (* bound: sinks created one after the other                *)
  MayFail,      (* whether opening, writing and flushing may fail          *)
  ClockGoesBack (* whether the date may also change to an earlier one      *)

ASSUME SinkAssumption ==
  /\ Sizes \subseteq Nat \ {0}
  /\ MaxFileSize \in Nat \ {0} /\ MaxFileSize < Width
  /\ \A s \in Sizes : s < Width
  /\ Width \in Nat
  /\ MaxBatch \in Nat /\ MaxRecords \in Nat /\ MaxIndex \in Nat
  /\ MaxDate \in Nat /\ MaxLives \in Nat
  /\ MayFail \in BOOLEAN /\ ClockGoesBack \in BOOLEAN

VARIABLES
  today,        (* the date currentDate() returns                          *)
  content,      (* what each file holds for the operating system           *)
  out,          (* the file out_ appends to                                *)
  buffer,       (* what was written to out_ and may still be in its buffer *)
  bad,          (* out_ is in an error state                               *)
  pending,      (* pending_, as records                                    *)
  currentDate,  (* currentDate_                                            *)
  currentSize,  (* currentSize_                                            *)
  fileIndex,    (* fileIndex_                                              *)
  batch,        (* the records writeBatch() has still to append            *)
  phase,        (* where the sink is; "down": there is none                *)
  given,        (* history: how many records this sink was given           *)
  lives,        (* history: how many sinks were created                    *)
  safe,         (* history: how many records it was given before the last  *)
                (* flush() that returned                                   *)
  wentBack      (* history: the date went back since it was created        *)

streamVars == <<content, out, buffer, bad>>
sinkVars == <<pending, currentDate, currentSize, fileIndex>>
historyVars == <<given, lives, safe, wentBack>>
vars == <<today, streamVars, sinkVars, batch, phase, historyVars>>

Dates == 0..MaxDate
Files == [date : Dates, index : 0..MaxIndex]

(* A record also says, for the properties, when it was given to which sink *)
Record == [size : Sizes, number : 1..MaxRecords, life : 1..MaxLives]

SizeOf(s) ==
  LET sum[i \in 0..Len(s)] == IF i = 0 THEN 0 ELSE sum[i - 1] + s[i].size
  IN sum[Len(s)]

File(date, index) == [date |-> date, index |-> index]

Fail == phase' = "failed"

--------------------------------------------------------------------------------
(* flushPending() and openNewLogFile() *)

FlushPending ==
  /\ buffer' = buffer \o pending
  /\ pending' = <<>>

(* out_.write() fails with some of pending_ written *)
WriteFails ==
  /\ MayFail /\ pending # <<>>
  /\ \E n \in 0..Len(pending) : buffer' = buffer \o SubSeq(pending, 1, n)
  /\ bad' = TRUE
  /\ Fail
  /\ UNCHANGED <<today, content, out, sinkVars, batch, historyVars>>

FileSize_StartsAtZero(f) == 0
FileSize(f) == SizeOf(content[f])

OldFileGets_WithoutBuffer == pending
OldFileGets == buffer \o pending

(* flushPending() and openNewLogFile() succeed: what was pending or in the *)
(* buffer of out_ reaches the old file before f takes its place.           *)
OpenNewLogFile(f) ==
  /\ content' = [content EXCEPT ![out] = @ \o OldFileGets]
  /\ buffer' = <<>> /\ pending' = <<>>
  /\ out' = f
  /\ currentSize' = FileSize(f)

(* The date and index are set first; then the old stream may refuse to     *)
(* flush, or f to be opened, which leaves the old file in place.           *)
Roll(date, index, next) ==
  /\ index <= MaxIndex
  /\ currentDate' = date /\ fileIndex' = index
  /\ \/ /\ OpenNewLogFile(File(date, index))
        /\ phase' = next
        /\ UNCHANGED bad
     \/ /\ MayFail
        /\ FlushPending
        /\ bad' \in BOOLEAN
        /\ Fail
        /\ UNCHANGED <<content, out, currentSize>>
  /\ UNCHANGED <<today, batch, historyVars>>

--------------------------------------------------------------------------------
(* The constructor: today's file 0 *)
Create ==
  /\ phase = "down" /\ lives < MaxLives
  /\ lives' = lives + 1
  /\ currentDate' = today /\ fileIndex' = 0
  /\ out' = File(today, 0)
  /\ currentSize' = FileSize(File(today, 0))
  /\ pending' = <<>> /\ buffer' = <<>> /\ bad' = FALSE
  /\ phase' = "idle"
  /\ given' = 0 /\ safe' = 0 /\ wentBack' = FALSE
  /\ UNCHANGED <<today, content, batch>>

(* writeBatch(), called with the records that follow those given so far *)
WriteBatch(sizes) ==
  /\ phase = "idle"
  /\ given + Len(sizes) <= MaxRecords
  /\ batch' = [i \in 1..Len(sizes) |->
                [size |-> sizes[i], number |-> given + i, life |-> lives]]
  /\ given' = given + Len(sizes)
  /\ phase' = "date"
  /\ UNCHANGED <<today, streamVars, sinkVars, lives, safe, wentBack>>

(* rollIfNeeded(): the date *)
CheckDate ==
  /\ phase = "date" /\ batch # <<>>
  /\ \/ /\ today = currentDate
        /\ phase' = "size"
        /\ UNCHANGED <<today, streamVars, sinkVars, batch, historyVars>>
     \/ /\ today # currentDate
        /\ WriteFails \/ Roll(today, 0, "size")

Minus(a, b) == (a - b) % Width

NeedsRoll_Unguarded(appendSize) ==
  /\ currentSize > 0
  /\ currentSize > Minus(MaxFileSize, appendSize)

NeedsRoll_WithoutNewline(appendSize) ==
  /\ currentSize > 0
  /\ \/ appendSize - 1 > MaxFileSize
     \/ currentSize > Minus(MaxFileSize, appendSize - 1)

NeedsRoll_EvenEmpty(appendSize) ==
  appendSize > MaxFileSize \/ currentSize > Minus(MaxFileSize, appendSize)

(* rollIfNeeded(): the condition of the loop, in unsigned arithmetic *)
NeedsRoll(appendSize) ==
  /\ currentSize > 0
  /\ \/ appendSize > MaxFileSize
     \/ currentSize > Minus(MaxFileSize, appendSize)

(* rollIfNeeded(): one round of the loop *)
RollForSize ==
  /\ phase = "size" /\ NeedsRoll(Head(batch).size)
  /\ WriteFails \/ Roll(currentDate, fileIndex + 1, "size")

AppendRecord ==
  /\ phase = "size" /\ ~NeedsRoll(Head(batch).size)
  /\ pending' = Append(pending, Head(batch))
  /\ currentSize' = currentSize + Head(batch).size
  /\ batch' = Tail(batch)
  /\ phase' = "date"
  /\ UNCHANGED <<today, streamVars, currentDate, fileIndex, historyVars>>

(* The flushPending() at the end of writeBatch() *)
EndBatch ==
  /\ phase = "date" /\ batch = <<>>
  /\ \/ WriteFails
     \/ /\ FlushPending
        /\ phase' = "idle"
        /\ UNCHANGED <<today, content, out, bad, currentDate, currentSize,
                       fileIndex, batch, historyVars>>

(* flush(); after a failure the worker calls it once more, and it throws   *)
(* again if the stream is bad.                                             *)
Flush ==
  /\ phase \in {"idle", "failed"} /\ ~bad
  /\ content' = [content EXCEPT ![out] = @ \o buffer]
  /\ buffer' = <<>>
  /\ safe' = IF phase = "idle" THEN given ELSE safe
  /\ UNCHANGED <<today, out, bad, sinkVars, batch, phase, given, lives, wentBack>>

(* flush() throws; the stream may have written a part (see Spill).         *)
FlushFails ==
  /\ MayFail /\ buffer # <<>>
  /\ phase \in {"idle", "failed"} /\ ~bad
  /\ bad' = TRUE
  /\ Fail
  /\ UNCHANGED <<today, content, out, buffer, sinkVars, batch, historyVars>>

(* close(), and the end of the sink; a stream that fails saves what it can *)
Close ==
  /\ phase \in {"idle", "failed"}
  /\ \E n \in 0..Len(buffer) :
       /\ ~bad /\ ~MayFail => n = Len(buffer)
       /\ content' = [content EXCEPT ![out] = @ \o SubSeq(buffer, 1, n)]
  /\ phase' = "down"
  /\ batch' = <<>> /\ buffer' = <<>> /\ pending' = <<>> /\ bad' = FALSE
  /\ UNCHANGED <<today, out, currentDate, currentSize, fileIndex, historyVars>>

--------------------------------------------------------------------------------
(* The environment *)

(* The stream empties a part of its buffer by itself when it is full.      *)
Spill ==
  /\ phase # "down" /\ buffer # <<>>
  /\ content' = [content EXCEPT ![out] = Append(@, Head(buffer))]
  /\ buffer' = Tail(buffer)
  /\ UNCHANGED <<today, out, bad, sinkVars, batch, phase, historyVars>>

(* Midnight, or somebody sets the clock or the time zone. *)
NewDate ==
  /\ today' \in Dates \ {today}
  /\ today' = today + 1 \/ ClockGoesBack
  /\ wentBack' = (wentBack \/ today' < today)
  /\ UNCHANGED <<streamVars, sinkVars, batch, phase, given, lives, safe>>

(* The process dies, and its memory with it. *)
Crash ==
  /\ phase # "down"
  /\ phase' = "down"
  /\ batch' = <<>> /\ buffer' = <<>> /\ pending' = <<>> /\ bad' = FALSE
  /\ UNCHANGED <<today, content, out, currentDate, currentSize, fileIndex,
                 historyVars>>

Init ==
  /\ today = 0
  /\ content = [f \in Files |-> <<>>]
  /\ out = File(0, 0) /\ buffer = <<>> /\ bad = FALSE
  /\ pending = <<>> /\ currentDate = 0 /\ currentSize = 0 /\ fileIndex = 0
  /\ batch = <<>> /\ phase = "down"
  /\ given = 0 /\ lives = 0 /\ safe = 0 /\ wentBack = FALSE

WriteStep == CheckDate \/ RollForSize \/ AppendRecord \/ EndBatch

Next ==
  \/ Create \/ WriteStep \/ Flush \/ FlushFails \/ Close
  \/ \E n \in 1..MaxBatch : \E sizes \in [1..n -> Sizes] : WriteBatch(sizes)
  \/ Spill \/ NewDate \/ Crash

Spec == Init /\ [][Next]_vars

(* The worker thread runs, and the calls of the C++ library return.        *)
FairSpec == Spec /\ WF_vars(WriteStep)

--------------------------------------------------------------------------------
(* What f holds once the sink has written what it keeps; after a failed    *)
(* write the worker never calls writeBatch() again.                        *)
Stored(f) ==
  CASE f # out -> content[f]
    [] f = out /\ bad -> content[f] \o buffer
    [] OTHER -> content[f] \o buffer \o pending

(* The types of the header.                                                *)
TypeOK ==
  /\ today \in Dates /\ currentDate \in Dates
  /\ content \in [Files -> Seq(Record)]
  /\ out \in Files
  /\ buffer \in Seq(Record) /\ pending \in Seq(Record) /\ batch \in Seq(Record)
  /\ bad \in BOOLEAN
  /\ currentSize \in 0..Width - 1 /\ fileIndex \in 0..MaxIndex
  /\ phase \in {"down", "idle", "date", "size", "failed"}
  /\ given \in 0..MaxRecords /\ lives \in 0..MaxLives /\ safe \in 0..given
  /\ wentBack \in BOOLEAN

(* No file exceeds maxFileSize, over any number of restarts, date changes  *)
(* and crashes, except one that holds a single record too large for any.   *)
SizeBound ==
  \A f \in Files : SizeOf(Stored(f)) <= MaxFileSize \/ Len(Stored(f)) = 1

(* currentSize_ agrees with the length the file will have, as the comment  *)
(* on binary mode says, also after a failed attempt to open the next file. *)
SizeTracked ==
  phase # "down" /\ ~bad => currentSize = SizeOf(Stored(out))

(* writeBatch() comes to an end: a record too large for any file does not  *)
(* make the sink roll for ever, and neither do the files it finds.         *)
WriteBatchReturns == phase \in {"date", "size"} ~> phase \notin {"date", "size"}
================================================================================

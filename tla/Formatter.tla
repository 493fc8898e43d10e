-------------------------------- MODULE Formatter --------------------------------
(***************************************************************************)
(* What becomes of a log call's data on its way to a line of the log: the  *)
(* LogRecord that logImpl() builds on the caller's thread, and the text    *)
(* that formatMessage() makes of it later on the worker, with the cached   *)
(* prefix of the time stamp.  Brackets and the calendar are left out: the  *)
(* text strftime() gives stands for a second of local time.                *)
(***************************************************************************)
EXTENDS Integers, Sequences

CONSTANTS
  Times,       (* what system_clock::now() may return, in milliseconds     *)
  Zones,       (* offsets from UTC of the time zones, in seconds           *)
  Levels,      (* LogLevel arguments, enumerators or not                   *)
  LineNumbers, (* the int passed with the file name: __LINE__, or any      *)
  Callers,     (* application threads                                      *)
  ThreadHash,  (* std::hash<std::thread::id> of each of them               *)
  Texts,       (* what the caller's memory may hold                        *)
  MaxQueued    (* bound: records waiting for the worker                    *)

ASSUME FormatterAssumption ==
  /\ Times \subseteq Nat /\ Zones \subseteq Nat /\ Zones # {}
  /\ Levels \subseteq Nat /\ LineNumbers \subseteq Int /\ Texts # {}
  /\ ThreadHash \in [Callers -> Nat] /\ MaxQueued \in Nat

(* A `const char*`: null, __FILE__, or the c_str() of a string that the    *)
(* caller overwrites when the call has returned                            *)
Pointers == {"null", "static", "buffer"}

VARIABLES
  buffer,       (* what that string holds, the message too                 *)
  zone,         (* the offset localtime_r() applies now                    *)
  records,      (* LogRecords not yet formatted                            *)
  hasCached, cachedSecond, cachedPrefix,  (* Logger's cache                *)
  line,         (* the last line formatted since init(), or <<>>           *)
  called, zones (* history: the call behind that line, and the offsets in  *)
                (* effect since init() or since the last line of another   *)
                (* second                                                  *)

cacheVars == <<hasCached, cachedSecond, cachedPrefix>>
vars == <<buffer, zone, records, cacheVars, line, called, zones>>

(* The string copied from there; "empty" points to the literal "".         *)
Contents(pointer) ==
  CASE pointer \in {"null", "empty"} -> "" [] pointer = "static" -> "file.cpp"
    [] pointer = "buffer" -> buffer

--------------------------------------------------------------------------------
(* logImpl(): log() copies the file name, logStatic() keeps the pointer.   *)
FileOf_KeepsPointer(pointer, isStatic) ==
  [staticFile |-> pointer, ownedFile |-> ""]

FileOf(pointer, isStatic) ==
  IF isStatic
  THEN [staticFile |-> IF pointer = "null" THEN "empty" ELSE pointer,
        ownedFile |-> ""]
  ELSE [staticFile |-> "null", ownedFile |-> Contents(pointer)]

LogImpl(caller, level, pointer, number, isStatic, now) ==
  /\ Len(records) < MaxQueued
  /\ records' = Append(records,
       [timestamp |-> now, level |-> level, threadId |-> caller,
        file |-> FileOf(pointer, isStatic), line |-> number, message |-> buffer,
        origin |-> [time |-> now, level |-> level, thread |-> caller,
                    file |-> Contents(pointer), line |-> number,
                    message |-> buffer]])
  /\ UNCHANGED <<buffer, zone, cacheVars, line, called, zones>>

(* logStatic() is only for strings that stay valid until the record is     *)
(* formatted, like __FILE__.                                               *)
Call ==
  \E caller \in Callers, level \in Levels, number \in LineNumbers, now \in Times :
    \/ \E pointer \in Pointers :
         LogImpl(caller, level, pointer, number, FALSE, now)
    \/ \E pointer \in {"null", "static"} :
         LogImpl(caller, level, pointer, number, TRUE, now)

ReuseBuffer ==
  /\ buffer' \in Texts
  /\ UNCHANGED <<zone, records, cacheVars, line, called, zones>>

--------------------------------------------------------------------------------
(* The worker: formatMessage() and what it calls *)

LevelToString(level) ==
  IF level \in 0..4 THEN <<"DEBUG", "INFO", "WARN", "ERROR", "FATAL">>[level + 1]
  ELSE "UNKNOWN"

(* to_chars(): decimal digits without leading zeros *)
Digits[n \in Nat] ==
  IF n < 10 THEN <<n>> ELSE Append(Digits[n \div 10], n % 10)

Second(time) == time \div 1000

(* Whether formatTime() has to ask for the local time                      *)
CacheMiss(time) == ~hasCached \/ Second(time) # cachedSecond

ToLocalTime(second) == second + zone

RefreshPrefix(time) ==
  IF CacheMiss(time)
  THEN /\ cachedPrefix' = ToLocalTime(Second(time))
       /\ cachedSecond' = Second(time)
       /\ hasCached' = TRUE
  ELSE UNCHANGED cacheVars

Padding(ms) ==
  (IF ms < 100 THEN <<0>> ELSE <<>>) \o (IF ms < 10 THEN <<0>> ELSE <<>>)

FormatMessage ==
  /\ records # <<>>
  /\ LET r == Head(records)
         ms == r.timestamp % 1000
     IN /\ RefreshPrefix(r.timestamp)
        /\ line' = [time |-> cachedPrefix', ms |-> Padding(ms) \o Digits[ms],
                    level |-> LevelToString(r.level),
                    thread |-> ThreadHash[r.threadId],
                    file |-> IF r.file.staticFile = "null" THEN r.file.ownedFile
                             ELSE Contents(r.file.staticFile),
                    line |-> r.line, message |-> r.message]
        /\ called' = r.origin
        /\ zones' = IF line # <<>> /\ Second(called.time) = Second(r.origin.time)
                    THEN zones ELSE {zone}
  /\ records' = Tail(records)
  /\ UNCHANGED <<buffer, zone>>

--------------------------------------------------------------------------------
(* init(): what was queued before is drained or gone, the cache is empty.  *)
ResetCache_Keeps == UNCHANGED cacheVars
ResetCache ==
  hasCached' = FALSE /\ cachedPrefix' = 0 /\ UNCHANGED cachedSecond

Restart ==
  /\ ResetCache
  /\ records' = <<>> /\ line' = <<>> /\ called' = <<>> /\ zones' = {zone}
  /\ UNCHANGED <<buffer, zone>>

(* The application or the administrator changes the time zone.             *)
SetZone ==
  /\ zone' \in Zones \ {zone}
  /\ zones' = zones \cup {zone'}
  /\ UNCHANGED <<buffer, records, cacheVars, line, called>>

Init ==
  /\ buffer \in Texts /\ zone \in Zones /\ records = <<>>
  /\ hasCached = FALSE /\ cachedSecond = 0 /\ cachedPrefix = 0
  /\ line = <<>> /\ called = <<>> /\ zones = {zone}

Next == Call \/ ReuseBuffer \/ FormatMessage \/ Restart \/ SetZone

Spec == Init /\ [][Next]_vars

--------------------------------------------------------------------------------
(* A line tells what the caller passed, when the call was made, although   *)
(* it is formatted after the caller went on and reused its strings; the    *)
(* milliseconds are three digits that give back the number.                *)
LineTellsCall ==
  line # <<>> =>
    /\ line.level = LevelToString(called.level)
    /\ line.thread = ThreadHash[called.thread]
    /\ line.file = called.file /\ line.line = called.line
    /\ line.message = called.message
    /\ Len(line.ms) = 3
    /\ 100 * line.ms[1] + 10 * line.ms[2] + line.ms[3] = called.time % 1000

(* The date and time of a line are those of its own second, whichever      *)
(* order the records' times come in, in a zone that was in effect in this  *)
(* lifecycle and since the log last showed another second.                 *)
TimeOfRecord ==
  line # <<>> => \E z \in zones : line.time = Second(called.time) + z
================================================================================

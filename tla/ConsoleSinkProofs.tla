---------------------------- MODULE ConsoleSinkProofs ----------------------------
(***************************************************************************)
(* Proofs about ConsoleSink for any number of sinks on one stream, and of  *)
(* records given to each.                                                  *)
(***************************************************************************)
EXTENDS ConsoleSink, SequenceTheorems, TLAPS

Shown == [life : Nat, number : Nat]

Before(a, b) == a.life < b.life \/ (a.life = b.life /\ a.number < b.number)

InOrder(s) == \A i, j \in 1..Len(s) : i < j => Before(s[i], s[j])

(* Nothing in s is newer than record n of sink l.                          *)
NotAfter(s, l, n) ==
  \A i \in 1..Len(s) : s[i].life < l \/ (s[i].life = l /\ s[i].number <= n)

(* The console and the stream's buffer together                            *)
Stream == terminal \o buffer

(* Order on the console is not inductive alone: what comes to it next is   *)
(* in the buffer already, and what comes there next is newer.  An open     *)
(* sink has nothing left from a write that failed.                         *)
ConsoleInv ==
  /\ phase \in {"none", "open", "failed"}
  /\ given \in Nat /\ lives \in Nat
  /\ terminal \in Seq(Shown) /\ buffer \in Seq(Shown) /\ pending \in Seq(Shown)
  /\ phase = "open" => pending = <<>>
  /\ InOrder(Stream) /\ NotAfter(Stream, lives, given)

--------------------------------------------------------------------------------
(* Order in sequences *)

(* The elements of a concatenation, and where they are                     *)
LEMMA ConcatElements ==
  ASSUME NEW s \in Seq(Shown), NEW t \in Seq(Shown)
  PROVE  /\ s \o t \in Seq(Shown)
         /\ Len(s) \in Nat /\ Len(t) \in Nat /\ Len(s \o t) = Len(s) + Len(t)
         /\ \A i \in 1..Len(s) : (s \o t)[i] = s[i]
         /\ \A i \in Len(s) + 1 .. Len(s) + Len(t) : (s \o t)[i] = t[i - Len(s)]
<1>1. Len(s) \in Nat /\ Len(t) \in Nat
  BY LenProperties
<1>2. /\ s \o t \in Seq(Shown) /\ Len(s \o t) = Len(s) + Len(t)
      /\ \A i \in 1 .. Len(s) + Len(t) :
           (s \o t)[i] = IF i <= Len(s) THEN s[i] ELSE t[i - Len(s)]
  BY ConcatProperties
<1> QED
  BY <1>1, <1>2

(* A function on 1..n is a sequence of n, and its first k a sequence too.  *)
LEMMA FirstOf ==
  ASSUME NEW n \in Nat, NEW t \in [1..n -> Shown], NEW k \in 0..n
  PROVE  /\ t \in Seq(Shown) /\ Len(t) = n
         /\ SubSeq(t, 1, k) \in Seq(Shown) /\ Len(SubSeq(t, 1, k)) = k
         /\ \A i \in 1..k : SubSeq(t, 1, k)[i] = t[i]
<1>1. t \in Seq(Shown) /\ Len(t) = n
  OBVIOUS
<1>2. \A i \in 1..k : t[i] \in Shown
  OBVIOUS
<1> QED
  BY <1>1, <1>2, SubSeqProperties

(* The first part of an ordered sequence is ordered.                       *)
LEMMA FirstPart ==
  ASSUME NEW s \in Seq(Shown), NEW t \in Seq(Shown),
         NEW l, NEW n, InOrder(s \o t), NotAfter(s \o t, l, n)
  PROVE  InOrder(s) /\ NotAfter(s, l, n)
<1>1. /\ \A i \in 1..Len(s) : i \in 1..Len(s \o t) /\ (s \o t)[i] = s[i]
  BY ConcatElements
<1> QED
  BY <1>1 DEF InOrder, NotAfter

(* Records that are newer than all there are may be added behind them.     *)
LEMMA AddNewer ==
  ASSUME NEW l \in Nat, NEW m \in Nat, NEW n \in Nat, m <= n,
         NEW s \in Seq(Shown), InOrder(s), NotAfter(s, l, m),
         NEW t \in Seq(Shown), InOrder(t),
         \A i \in 1..Len(t) : t[i].life = l /\ t[i].number > m /\ t[i].number <= n
  PROVE  InOrder(s \o t) /\ NotAfter(s \o t, l, n)
<1> DEFINE u == s \o t
<1>1. /\ Len(s) \in Nat /\ Len(t) \in Nat /\ Len(u) = Len(s) + Len(t)
      /\ \A i \in 1..Len(s) : u[i] = s[i]
      /\ \A i \in Len(s) + 1 .. Len(s) + Len(t) : u[i] = t[i - Len(s)]
  BY ConcatElements
<1> HIDE DEF u
<1>2. \A i \in 1..Len(s) : s[i].life \in Nat /\ s[i].number \in Nat
  <2>1. \A i \in 1..Len(s) : s[i] \in Shown
    BY <1>1
  <2> QED
    BY <2>1 DEF Shown
<1>3. \A i \in 1..Len(t) : t[i].life \in Nat /\ t[i].number \in Nat
  <2>1. \A i \in 1..Len(t) : t[i] \in Shown
    BY <1>1
  <2> QED
    BY <2>1 DEF Shown
<1>4. \A i \in 1..Len(u) : i \in 1..Len(s) \/ i - Len(s) \in 1..Len(t)
  BY <1>1
<1>5. \A i \in 1..Len(u) : i - Len(s) \in 1..Len(t) => u[i] = t[i - Len(s)]
  BY <1>1
<1>6. ASSUME NEW i \in 1..Len(u), NEW j \in 1..Len(u), i < j PROVE Before(u[i], u[j])
  <2>1. CASE i \in 1..Len(s) /\ j \in 1..Len(s)
    BY <1>1, <1>6, <2>1 DEF InOrder
  <2>2. CASE i \in 1..Len(s) /\ j - Len(s) \in 1..Len(t)
    <3>1. /\ s[i].life < l \/ (s[i].life = l /\ s[i].number <= m)
          /\ t[j - Len(s)].life = l /\ t[j - Len(s)].number > m
      BY <2>2 DEF NotAfter
    <3>2. /\ s[i].life \in Nat /\ s[i].number \in Nat
          /\ t[j - Len(s)].life \in Nat /\ t[j - Len(s)].number \in Nat
      BY <1>2, <1>3, <2>2
    <3>3. Before(s[i], t[j - Len(s)])
      BY <3>1, <3>2 DEF Before
    <3> QED
      BY <1>1, <1>5, <2>2, <3>3
  <2>3. CASE i - Len(s) \in 1..Len(t)
    <3>1. j - Len(s) \in 1..Len(t) /\ i - Len(s) < j - Len(s)
      BY <1>1, <1>6, <2>3
    <3> QED
      BY <1>5, <2>3, <3>1 DEF InOrder
  <2> QED
    BY <1>4, <2>1, <2>2, <2>3
<1>7. ASSUME NEW i \in 1..Len(u)
      PROVE  u[i].life < l \/ (u[i].life = l /\ u[i].number <= n)
  <2>1. CASE i \in 1..Len(s)
    <3>1. s[i].life < l \/ (s[i].life = l /\ s[i].number <= m)
      BY <2>1 DEF NotAfter
    <3> QED
      BY <1>1, <1>2, <2>1, <3>1
  <2>2. CASE i - Len(s) \in 1..Len(t)
    BY <1>5, <2>2
  <2> QED
    BY <1>4, <2>1, <2>2
<1>8. InOrder(u) /\ NotAfter(u, l, n)
  BY <1>6, <1>7 DEF InOrder, NotAfter
<1> QED
  BY <1>8 DEF u

--------------------------------------------------------------------------------
(* The steps *)

(* What one writeBatch() makes of a batch has the numbers of its records.  *)
LEMMA TextIsNew ==
  ASSUME lives \in Nat, given \in Nat, NEW n \in Nat, NEW k \in 0..n, NEW text,
         text = [i \in 1..n |-> [life |-> lives, number |-> given + i]]
  PROVE  /\ text \in Seq(Shown) /\ Len(text) = n
         /\ SubSeq(text, 1, k) \in Seq(Shown) /\ InOrder(SubSeq(text, 1, k))
         /\ \A i \in 1..Len(SubSeq(text, 1, k)) :
              /\ SubSeq(text, 1, k)[i].life = lives
              /\ SubSeq(text, 1, k)[i].number > given
              /\ SubSeq(text, 1, k)[i].number <= given + n
<1>1. text \in [1..n -> Shown]
  BY DEF Shown
<1> DEFINE part == SubSeq(text, 1, k)
<1>2. text \in Seq(Shown) /\ Len(text) = n
  BY <1>1, FirstOf
<1>3. /\ part \in Seq(Shown) /\ Len(part) = k
      /\ \A i \in 1..k : part[i] = text[i]
  BY <1>1, FirstOf
<1> HIDE DEF part
<1>4. ASSUME NEW i \in 1..Len(part)
      PROVE  part[i].life = lives /\ part[i].number = given + i
  <2>1. \A j \in 1..n : text[j].life = lives /\ text[j].number = given + j
    OBVIOUS
  <2>2. Len(part) = k /\ \A j \in 1..k : part[j] = text[j]
    BY <1>3
  <2>3. i \in 1..k /\ i \in 1..n
    BY <2>2
  <2>4. part[i] = text[i]
    BY <2>2, <2>3
  <2> QED
    BY <2>1, <2>3, <2>4
<1>5. InOrder(part)
  BY <1>3, <1>4 DEF InOrder, Before
<1>6. \A i \in 1..Len(part) :
        part[i].life = lives /\ part[i].number > given /\ part[i].number <= given + n
  BY <1>3, <1>4
<1> QED
  BY <1>2, <1>3, <1>5, <1>6 DEF part

(* The lines of the next n records                                         *)
Lines(n) == [i \in 1..n |-> [life |-> lives, number |-> given + i]]

(* A write puts the lines of its batch, or the first of them, behind what  *)
(* the stream has; the sink stays open only with all of them.              *)
LEMMA WriteAdds ==
  ASSUME ConsoleInv, NEW n \in 1..MaxRecords, WriteBatch(n)
  PROVE  \E k \in 0..n :
           /\ buffer' = buffer \o SubSeq(Lines(n), 1, k)
           /\ phase' = "open" => k = n
<1>1. n \in Nat /\ 0 \in 0..n /\ n \in 0..n /\ pending = <<>>
  BY ConsoleAssumption DEF WriteBatch, ConsoleInv
<1>2. Lines(n) \in Seq(Shown) /\ Len(Lines(n)) = n
  BY <1>1, TextIsNew DEF ConsoleInv, Lines
<1>3. SubSeq(Lines(n), 1, n) = Lines(n)
  BY <1>1, <1>2
<1>4. pending \o Lines(n) = Lines(n)
  BY <1>1, <1>2, ConcatEmptySeq
<1>5. \/ buffer' = buffer \o Lines(n)
      \/ /\ \E k \in 0..n : buffer' = buffer \o SubSeq(Lines(n), 1, k)
         /\ phase' = "failed"
  <2>1. \/ buffer' = buffer \o (pending \o Lines(n))
        \/ /\ \E k \in 0..Len(pending \o Lines(n)) :
                buffer' = buffer \o SubSeq(pending \o Lines(n), 1, k)
           /\ phase' = "failed"
    BY DEF WriteBatch, Failed, Lines
  <2> QED
    BY <1>2, <1>4, <2>1
<1> QED
  BY <1>1, <1>3, <1>5

(* That keeps the order.                                                   *)
LEMMA WriteInOrder ==
  ASSUME ConsoleInv, NEW n \in 1..MaxRecords, WriteBatch(n)
  PROVE  ConsoleInv'
<1> DEFINE new == Lines(n)
<1> DEFINE text == pending \o new
<1>1. n \in Nat /\ given' = given + n /\ given' \in Nat
      /\ UNCHANGED <<terminal, lives>> /\ phase = "open" /\ pending = <<>>
  BY ConsoleAssumption DEF WriteBatch, ConsoleInv
<1>2. new \in Seq(Shown) /\ Len(new) = n
  <2>1. 0 \in 0..n
    BY <1>1
  <2> QED
    BY <1>1, <2>1, TextIsNew DEF ConsoleInv, Lines
<1>3. text = new
  BY <1>1, <1>2, ConcatEmptySeq
<1>4. PICK k \in 0..n : buffer' = buffer \o SubSeq(new, 1, k)
  BY WriteAdds
<1>5. /\ pending' \in Seq(Shown) /\ phase' \in {"open", "failed"}
      /\ phase' = "open" => pending' = <<>>
  <2>1. \/ pending' = <<>> /\ phase' = phase
        \/ pending' = text /\ phase' = "failed"
    BY DEF WriteBatch, Failed, Lines
  <2>2. <<>> \in Seq(Shown) /\ text \in Seq(Shown)
    <3> HIDE DEF new
    <3> QED
      BY <1>2, <1>3
  <2> HIDE DEF text
  <2> QED
    BY <1>1, <2>1, <2>2
<1> DEFINE part == SubSeq(new, 1, k)
<1>6. /\ part \in Seq(Shown) /\ InOrder(part)
      /\ \A i \in 1..Len(part) :
           part[i].life = lives /\ part[i].number > given /\ part[i].number <= given'
  BY <1>1, TextIsNew DEF ConsoleInv, Lines
<1> HIDE DEF part
<1>7. buffer' \in Seq(Shown)
  BY <1>4, <1>6, ConcatProperties DEF ConsoleInv, part
<1>8. Stream' = Stream \o part
  <2>1. terminal \in Seq(Shown) /\ buffer \in Seq(Shown)
    BY DEF ConsoleInv
  <2>2. (terminal \o buffer) \o part = terminal \o (buffer \o part)
    BY <1>6, <2>1, ConcatAssociative
  <2>3. buffer' = buffer \o part
    BY <1>4 DEF part
  <2> QED
    BY <1>1, <2>2, <2>3 DEF Stream
<1>9. Stream \in Seq(Shown)
  BY ConcatProperties DEF Stream, ConsoleInv
<1>10. InOrder(Stream \o part) /\ NotAfter(Stream \o part, lives, given')
  <2>1. /\ lives \in Nat /\ given \in Nat /\ given' \in Nat /\ given <= given'
        /\ lives' = lives
    BY <1>1 DEF ConsoleInv
  <2>2. InOrder(Stream) /\ NotAfter(Stream, lives, given)
    BY DEF ConsoleInv
  <2> QED
    BY <1>6, <1>9, <2>1, <2>2, AddNewer
<1>11. InOrder(Stream)' /\ NotAfter(Stream, lives, given)'
  BY <1>1, <1>8, <1>10 DEF InOrder, NotAfter
<1> QED
  BY <1>1, <1>5, <1>7, <1>11 DEF ConsoleInv

(* Every step keeps the invariant.                                         *)
LEMMA NextConsole == ConsoleInv /\ [Next]_vars => ConsoleInv'
<1> SUFFICES ASSUME ConsoleInv, [Next]_vars PROVE ConsoleInv'
  OBVIOUS
<1>1. Stream \in Seq(Shown)
  BY ConcatProperties DEF Stream, ConsoleInv
<1>2. ASSUME Stream' = Stream, terminal' \in Seq(Shown), buffer' \in Seq(Shown),
             UNCHANGED <<pending, given, lives>>,
             phase' \in {"none", "failed", phase}
      PROVE  ConsoleInv'
  BY <1>2 DEF ConsoleInv, InOrder, NotAfter
<1>3. CASE UNCHANGED <<terminal, buffer>>
           /\ UNCHANGED <<pending, given, lives>> /\ phase' \in {"none", "failed", phase}
  BY <1>2, <1>3 DEF Stream, ConsoleInv
<1>4. CASE /\ terminal' = terminal \o buffer /\ buffer' = <<>>
           /\ UNCHANGED <<pending, given, lives>> /\ phase' \in {"none", "failed", phase}
  <2>1. terminal' = Stream /\ Stream' = Stream
    BY <1>1, <1>4, ConcatEmptySeq DEF Stream
  <2> QED
    BY <1>1, <1>2, <1>4, <2>1
<1>5. CASE Create
  <2>1. Stream' = Stream /\ lives' = lives + 1 /\ given' = 0 /\ pending' = <<>>
        /\ phase' = "open" /\ UNCHANGED <<terminal, buffer>>
    BY <1>5 DEF Create, Stream
  <2>2. NotAfter(Stream, lives, given)'
    <3>1. \A i \in 1..Len(Stream) : Stream[i].life \in Nat
      <4>1. \A i \in 1..Len(Stream) : Stream[i] \in Shown
        BY <1>1
      <4> QED
        BY <4>1 DEF Shown
    <3>2. \A i \in 1..Len(Stream) : Stream[i].life < lives + 1
      BY <3>1 DEF ConsoleInv, NotAfter
    <3> QED
      BY <2>1, <3>2 DEF NotAfter
  <2>3. InOrder(Stream)'
    BY <2>1 DEF ConsoleInv, InOrder
  <2> QED
    BY <2>1, <2>2, <2>3 DEF ConsoleInv
<1>6. CASE Spill
  <2>1. buffer # <<>> /\ terminal' = Append(terminal, Head(buffer)) /\ buffer' = Tail(buffer)
        /\ UNCHANGED <<phase, pending, given, lives>>
    BY <1>6 DEF Spill
  <2>2. Head(buffer) \in Shown /\ Tail(buffer) \in Seq(Shown)
        /\ terminal \in Seq(Shown) /\ buffer \in Seq(Shown)
    BY <2>1, HeadTailProperties DEF ConsoleInv
  <2>3. terminal' = terminal \o <<Head(buffer)>> /\ terminal' \in Seq(Shown)
    BY <2>1, <2>2, AppendIsConcat, AppendProperties
  <2>4. buffer = <<Head(buffer)>> \o Tail(buffer) /\ <<Head(buffer)>> \in Seq(Shown)
    BY <2>1, <2>2
  <2>5. Stream' = Stream
    BY <2>1, <2>2, <2>3, <2>4, ConcatAssociative DEF Stream
  <2> QED
    BY <1>2, <2>1, <2>2, <2>3, <2>5
<1>7. CASE Crash
  <2>1. /\ terminal' = terminal /\ buffer' = <<>> /\ pending' = <<>> /\ phase' = "none"
        /\ UNCHANGED <<given, lives>>
    BY <1>7 DEF Crash
  <2>2. Stream' = terminal
    BY <2>1, ConcatEmptySeq DEF Stream, ConsoleInv
  <2>3. InOrder(terminal) /\ NotAfter(terminal, lives, given)
    BY FirstPart DEF ConsoleInv, Stream
  <2>4. InOrder(Stream)' /\ NotAfter(Stream, lives, given)'
    BY <2>1, <2>2, <2>3 DEF InOrder, NotAfter
  <2>5. phase' # "open" /\ buffer' \in Seq(Shown) /\ pending' \in Seq(Shown)
    BY <2>1, EmptySeq
  <2> QED
    BY <2>1, <2>4, <2>5 DEF ConsoleInv
<1>8. CASE Flush
  BY <1>3, <1>4, <1>8 DEF Flush, Failed
<1>9. CASE Close
  BY <1>3, <1>4, <1>9 DEF Close
<1>10. CASE Application \/ UNCHANGED vars
  BY <1>3, <1>10 DEF Application, vars
<1> QED
  BY <1>5, <1>6, <1>7, <1>8, <1>9, <1>10, WriteInOrder DEF Next

(* No record is shown twice and none after a record of a later sink, for   *)
(* any number of sinks, faults and crashes, and whatever the application   *)
(* does to the stream.                                                     *)
THEOREM ShownCorrect == Spec => []ShownOnce
<1>1. Init => ConsoleInv
  <2> SUFFICES ASSUME Init PROVE ConsoleInv
    OBVIOUS
  <2>1. Stream = <<>>
    BY ConcatEmptySeq DEF Init, Stream
  <2> QED
    BY <2>1 DEF Init, ConsoleInv, InOrder, NotAfter
<1>2. ConsoleInv => ShownOnce
  <2> SUFFICES ASSUME ConsoleInv PROVE ShownOnce
    OBVIOUS
  <2>1. terminal \in Seq(Shown) /\ InOrder(terminal)
    BY FirstPart DEF ConsoleInv, Stream
  <2> QED
    BY <2>1 DEF ShownOnce, InOrder, Before
<1> QED
  BY <1>1, <1>2, NextConsole, PTL DEF Spec

--------------------------------------------------------------------------------
(* The contract of LogSink                                                 *)

(* s is n records of other sinks and then the first k of sink l.           *)
EndsWith(s, l, n, k) ==
  /\ Len(s) = n + k
  /\ \A i \in 1..n : s[i].life # l
  /\ \A i \in 1..k : s[n + i].life = l /\ s[n + i].number = i

(* What the stream was given since the present sink was created is an      *)
(* initial part of what the sink was given; as long as the sink is open,   *)
(* all of it.                                                              *)
ContractInv ==
  \E n \in Nat, k \in 0..given :
    /\ EndsWith(Stream, lives, n, k)
    /\ phase = "open" => k = given

(* Where n records are of other sinks, the others are what is read.        *)
LEMMA NumbersOf ==
  ASSUME NEW s \in Seq(Shown), NEW l, NEW n \in Nat, NEW k \in Nat,
         EndsWith(s, l, n, k)
  PROVE  Numbers(s, l) = Sink!UpTo(k)
<1> DEFINE Starts(m) == /\ m = 0 \/ s[m].life # l
                        /\ \A i \in m + 1..Len(s) : s[i].life = l
<1>1. Len(s) = n + k /\ n \in 0..Len(s)
  BY DEF EndsWith
<1>2. Starts(n)
  <2>1. n = 0 \/ s[n].life # l
    BY DEF EndsWith
  <2>2. ASSUME NEW i \in n + 1..Len(s) PROVE s[i].life = l
    <3>1. i - n \in 1..k /\ n + (i - n) = i
      BY <1>1
    <3> QED
      BY <3>1 DEF EndsWith
  <2> QED
    BY <2>1, <2>2
<1>3. ASSUME NEW m \in 0..Len(s), Starts(m) PROVE m = n
  <2>1. CASE m < n
    <3>1. n \in m + 1..Len(s) /\ n \in 1..n
      BY <1>1, <2>1
    <3> QED
      BY <1>3, <3>1 DEF EndsWith
  <2>2. CASE m > n
    <3>1. m \in n + 1..Len(s) /\ m # 0
      BY <1>1, <2>2
    <3> QED
      BY <1>2, <1>3, <3>1
  <2> QED
    BY <1>1, <2>1, <2>2
<1>4. Start(s, l) = CHOOSE m \in 0..Len(s) : Starts(m)
  BY DEF Start
<1> HIDE DEF Starts
<1>5. Start(s, l) = n
  BY <1>1, <1>2, <1>3, <1>4
<1>6. Numbers(s, l) = [i \in 1..k |-> s[n + i].number]
  <2>1. Len(s) - Start(s, l) = k
    BY <1>1, <1>5
  <2> QED
    BY <1>5, <2>1 DEF Numbers
<1>7. \A i \in 1..k : s[n + i].number = i
  BY DEF EndsWith
<1> QED
  BY <1>6, <1>7 DEF Sink!UpTo

(* s ends with what comes after the first n of at most k more.             *)
EndsWithin(s, l, n, k) ==
  \E m \in Nat, j \in 0..k :
    /\ EndsWith(s, l, m, j)
    /\ j = IF Len(s) <= n THEN 0 ELSE Len(s) - n

(* What is on the console ends with an initial part of what the stream     *)
(* ends with.                                                              *)
LEMMA PartEndsWith ==
  ASSUME NEW s \in Seq(Shown), NEW t \in Seq(Shown), NEW l, NEW n \in Nat, NEW k \in Nat,
         EndsWith(s \o t, l, n, k)
  PROVE  EndsWithin(s, l, n, k)
<1>1. /\ Len(s) \in Nat /\ Len(t) \in Nat /\ Len(s \o t) = Len(s) + Len(t)
      /\ \A i \in 1..Len(s) : (s \o t)[i] = s[i]
  BY ConcatElements
<1>2. CASE Len(s) <= n
  <2>1. EndsWith(s, l, Len(s), 0)
    BY <1>1, <1>2 DEF EndsWith
  <2> QED
    BY <1>1, <1>2, <2>1 DEF EndsWithin
<1>3. CASE Len(s) > n
  <2>1. Len(s) - n \in 0..k
    BY <1>1, <1>3 DEF EndsWith
  <2>2. EndsWith(s, l, n, Len(s) - n)
    <3>1. /\ \A i \in 1..n : i \in 1..Len(s)
          /\ \A i \in 1..Len(s) - n : n + i \in 1..Len(s) /\ i \in 1..k
      BY <1>1, <1>3, <2>1
    <3> QED
      BY <1>1, <1>3, <3>1 DEF EndsWith
  <2> QED
    BY <1>3, <2>1, <2>2, <1>1 DEF EndsWithin
<1> QED
  BY <1>1, <1>2, <1>3

(* UpTo(k) has k members.                                                  *)
LEMMA UpToLength ==
  ASSUME NEW k \in Nat PROVE Len(Sink!UpTo(k)) = k
BY DEF Sink!UpTo

(* When more of what the stream was given reaches the console, the output  *)
(* goes on where it stopped; when all of it does, an open sink has shown   *)
(* all it was given.                                                       *)
LEMMA OutputGrows ==
  ASSUME ConsoleInv, ContractInv, NEW more \in Seq(Shown), NEW rest \in Seq(Shown),
         buffer = more \o rest, terminal' = terminal \o more, UNCHANGED <<lives, given>>
  PROVE  /\ \E k \in 0..given : Sink!Extends(k)
         /\ rest = <<>> /\ phase = "open" => Sink!Extends(given)
<1>1. /\ terminal \in Seq(Shown) /\ buffer \in Seq(Shown) /\ given \in Nat
      /\ terminal' \in Seq(Shown)
  BY ConcatProperties DEF ConsoleInv
<1>2. Stream = terminal' \o rest
  BY <1>1, ConcatAssociative DEF Stream
<1>3. PICK n \in Nat, k \in 0..given :
        EndsWith(Stream, lives, n, k) /\ (phase = "open" => k = given)
  BY DEF ContractInv
<1>a. k \in Nat /\ k <= given
  BY <1>1
<1>c. EndsWithin(terminal, lives, n, k) /\ EndsWithin(terminal', lives, n, k)
  <2>1. EndsWith(terminal \o buffer, lives, n, k)
    BY <1>3 DEF Stream
  <2>2. EndsWith(terminal' \o rest, lives, n, k)
    BY <1>2, <1>3
  <2>3. EndsWithin(terminal, lives, n, k)
    BY <1>1, <1>a, <2>1, PartEndsWith
  <2> QED
    BY <1>1, <1>a, <2>2, <2>3, PartEndsWith
<1>4. PICK m \in Nat, j \in 0..k :
        /\ EndsWith(terminal, lives, m, j)
        /\ j = IF Len(terminal) <= n THEN 0 ELSE Len(terminal) - n
  BY <1>c DEF EndsWithin
<1>5. PICK m1 \in Nat, j1 \in 0..k :
        /\ EndsWith(terminal', lives, m1, j1)
        /\ j1 = IF Len(terminal') <= n THEN 0 ELSE Len(terminal') - n
  BY <1>c DEF EndsWithin
<1>b. j \in Nat /\ j1 \in Nat /\ j1 <= k
  BY <1>a
<1>6. Output = Sink!UpTo(j) /\ Output' = Sink!UpTo(j1)
  <2>1. Numbers(terminal, lives) = Sink!UpTo(j)
    BY <1>1, <1>4, <1>b, NumbersOf
  <2>2. Numbers(terminal', lives) = Sink!UpTo(j1)
    BY <1>1, <1>5, <1>b, NumbersOf
  <2>3. Output' = Numbers(terminal', lives)
    BY DEF Output
  <2> QED
    BY <2>1, <2>2, <2>3 DEF Output
<1>7. Len(terminal) \in Nat /\ Len(terminal') \in Nat /\ Len(terminal) <= Len(terminal')
  BY <1>1, ConcatElements
<1>8. j <= j1 /\ j1 \in 0..given
  BY <1>1, <1>3, <1>4, <1>5, <1>7, <1>a, <1>b
<1>9. Sink!Extends(j1)
  BY <1>4, <1>6, <1>8, UpToLength DEF Sink!Extends
<1>10. ASSUME rest = <<>>, phase = "open" PROVE j1 = given
  <2>1. Stream = terminal' /\ Len(Stream) = n + k
    BY <1>1, <1>2, <1>3, <1>10, ConcatEmptySeq DEF EndsWith
  <2> QED
    BY <1>3, <1>5, <1>10, <2>1
<1> QED
  BY <1>8, <1>9, <1>10

(* A step of the sink is a step of LogSink's or shows nothing.             *)
SinkStep == [Sink!Next]_(Sink!vars)

(* Nothing new on the console                                              *)
LEMMA SameOutput ==
  ASSUME UNCHANGED <<terminal, lives>> PROVE Output' = Output
BY DEF Output

LEMMA SameExtends ==
  ASSUME ConsoleInv, ContractInv, UNCHANGED <<terminal, lives, given>>
  PROVE  \E k \in 0..given : Sink!Extends(k)
<1>1. terminal \in Seq(Shown) /\ buffer \in Seq(Shown) /\ <<>> \in Seq(Shown)
  BY DEF ConsoleInv
<1>2. buffer = <<>> \o buffer /\ terminal' = terminal \o <<>>
  BY <1>1
<1> QED
  BY <1>1, <1>2, OutputGrows

LEMMA NextContract ==
  ConsoleInv /\ ContractInv /\ [Next]_vars => SinkStep
<1> SUFFICES ASSUME ConsoleInv, ContractInv, [Next]_vars PROVE SinkStep
  OBVIOUS
<1> USE DEF SinkStep, Sink!vars
<1>1. terminal \in Seq(Shown) /\ buffer \in Seq(Shown) /\ <<>> \in Seq(Shown)
      /\ phase \in {"none", "open", "failed"} /\ given \in Nat
  BY DEF ConsoleInv
<1>2. ASSUME terminal' = terminal \o buffer, UNCHANGED <<lives, given>>
      PROVE  /\ \E k \in 0..given : Sink!Extends(k)
             /\ phase = "open" => Sink!Extends(given)
  <2>1. buffer = buffer \o <<>>
    BY <1>1
  <2> QED
    BY <1>1, <1>2, <2>1, OutputGrows
<1>3. CASE Create
  <2>1. Output' = <<>>
    <3>1. EndsWith(terminal, lives + 1, Len(terminal), 0)
      <4>1. \A i \in 1..Len(terminal) : terminal[i].life # lives + 1
        <5>1. NotAfter(terminal, lives, given) /\ lives \in Nat
          BY FirstPart DEF ConsoleInv, Stream
        <5>2. \A i \in 1..Len(terminal) : terminal[i].life \in Nat
          <6>1. \A i \in 1..Len(terminal) : terminal[i] \in Shown
            BY <1>1
          <6> QED
            BY <6>1 DEF Shown
        <5> QED
          BY <5>1, <5>2 DEF NotAfter
      <4> QED
        BY <1>1, <4>1 DEF EndsWith
    <3>2. Numbers(terminal, lives + 1) = Sink!UpTo(0)
      BY <1>1, <3>1, NumbersOf
    <3>3. Sink!UpTo(0) = <<>>
      BY DEF Sink!UpTo
    <3> QED
      BY <1>3, <3>2, <3>3 DEF Create, Output
  <2>2. Sink!Create
    BY <1>3, <2>1 DEF Create, Sink!Create
  <2> QED
    BY <2>2 DEF Sink!Next
<1>4. ASSUME NEW n \in 1..MaxRecords, WriteBatch(n) PROVE SinkStep
  <2>1. given' >= given /\ phase = "open" /\ phase' \in {"open", "failed"}
        /\ UNCHANGED <<terminal, lives, safe>>
    BY <1>1, <1>4, ConsoleAssumption DEF WriteBatch, Failed
  <2>2. Sink!WriteBatch
    BY <2>1, SameOutput DEF Sink!WriteBatch
  <2> QED
    BY <2>2 DEF Sink!Next
<1>5. CASE Flush
  <2>1. UNCHANGED <<given, lives>> /\ phase # "none"
    BY <1>5 DEF Flush
  <2>2. CASE ~bad /\ terminal' = terminal \o buffer /\ phase = "open" /\ safe' = given
             /\ UNCHANGED phase
    <3>1. Sink!Flush
      BY <1>2, <2>1, <2>2 DEF Sink!Flush
    <3> QED
      BY <3>1 DEF Sink!Next
  <2>3. CASE ~bad /\ terminal' = terminal \o buffer /\ phase = "failed" /\ UNCHANGED <<safe, phase>>
    <3>1. Sink!Fail
      BY <1>2, <2>1, <2>3 DEF Sink!Fail
    <3> QED
      BY <3>1 DEF Sink!Next
  <2>4. CASE phase' = "failed" /\ UNCHANGED <<terminal, safe>>
    <3>1. Sink!Fail
      BY <2>1, <2>4, SameExtends DEF Sink!Fail
    <3> QED
      BY <3>1 DEF Sink!Next
  <2> QED
    BY <1>1, <1>5, <2>1, <2>2, <2>3, <2>4 DEF Flush, Failed
<1>6. CASE Close
  <2>1. phase # "none" /\ phase' = "none" /\ UNCHANGED <<given, lives, safe>>
        /\ (terminal' = terminal \o buffer \/ UNCHANGED terminal)
    BY <1>6 DEF Close
  <2>2. Sink!Close
    BY <1>2, <2>1, SameExtends DEF Sink!Close
  <2> QED
    BY <2>2 DEF Sink!Next
<1>7. CASE Spill
  <2>1. buffer # <<>> /\ terminal' = Append(terminal, Head(buffer))
        /\ UNCHANGED <<phase, given, lives, safe>>
    BY <1>7 DEF Spill
  <2>2. /\ Head(buffer) \in Shown /\ <<Head(buffer)>> \in Seq(Shown)
        /\ Tail(buffer) \in Seq(Shown) /\ buffer = <<Head(buffer)>> \o Tail(buffer)
    BY <1>1, <2>1
  <2>3. terminal' = terminal \o <<Head(buffer)>>
    BY <1>1, <2>1, <2>2, AppendIsConcat
  <2>4. Sink!Save
    BY <2>1, <2>2, <2>3, OutputGrows DEF Sink!Save
  <2> QED
    BY <2>4 DEF Sink!Next
<1>8. CASE Crash
  <2>1. phase' = "none" /\ UNCHANGED <<terminal, given, lives, safe>>
    BY <1>8 DEF Crash
  <2>2. CASE phase = "none"
    BY <2>1, <2>2, SameOutput
  <2>3. CASE phase # "none"
    <3>1. Sink!Close
      BY <2>1, <2>3, SameExtends DEF Sink!Close
    <3> QED
      BY <3>1 DEF Sink!Next
  <2> QED
    BY <2>2, <2>3
<1>9. CASE Application \/ UNCHANGED vars
  BY <1>9, SameOutput DEF Application, vars
<1> QED
  BY <1>3, <1>4, <1>5, <1>6, <1>7, <1>8, <1>9 DEF Next

(* A write adds the next numbers.                                          *)
LEMMA WriteKeepsContract ==
  ASSUME ConsoleInv, ContractInv, NEW n \in 1..MaxRecords, WriteBatch(n)
  PROVE  ContractInv'
<1>1. PICK k \in 0..n :
        buffer' = buffer \o SubSeq(Lines(n), 1, k) /\ (phase' = "open" => k = n)
  BY WriteAdds
<1>2. /\ phase = "open" /\ UNCHANGED <<terminal, lives>> /\ given' = given + n
      /\ given \in Nat /\ lives \in Nat /\ n \in Nat
      /\ terminal \in Seq(Shown) /\ buffer \in Seq(Shown)
  BY ConsoleAssumption DEF WriteBatch, ConsoleInv
<1>3. PICK m \in Nat : EndsWith(Stream, lives, m, given)
  BY <1>2 DEF ContractInv
<1> DEFINE part == SubSeq(Lines(n), 1, k)
<1>4. /\ part \in Seq(Shown) /\ Len(part) = k
      /\ \A i \in 1..k : part[i].life = lives /\ part[i].number = given + i
  <2>1. Lines(n) \in [1..n -> Shown]
    BY <1>2 DEF Lines, Shown
  <2>2. /\ part \in Seq(Shown) /\ Len(part) = k
        /\ \A i \in 1..k : part[i] = Lines(n)[i]
    BY <1>1, <1>2, <2>1, FirstOf
  <2>3. \A i \in 1..k : Lines(n)[i] = [life |-> lives, number |-> given + i]
    BY <1>1, <1>2 DEF Lines
  <2>4. ASSUME NEW i \in 1..k PROVE part[i].life = lives /\ part[i].number = given + i
    <3>1. part[i] = [life |-> lives, number |-> given + i]
      BY <2>2, <2>3
    <3> HIDE DEF part
    <3> QED
      BY <3>1
  <2> QED
    BY <2>2, <2>4
<1>a. k \in Nat /\ buffer' = buffer \o part
  BY <1>1, <1>2
<1> HIDE DEF part
<1>5. Stream' = Stream \o part /\ Stream \in Seq(Shown)
  <2>1. (terminal \o buffer) \o part = terminal \o (buffer \o part)
    BY <1>2, <1>4, ConcatAssociative
  <2>2. terminal' = terminal /\ buffer' = buffer \o part
    BY <1>2, <1>a
  <2> QED
    BY <1>2, <2>1, <2>2, ConcatProperties DEF Stream
<1>6. EndsWith(Stream \o part, lives, m, given + k)
  <2>1. /\ Len(Stream \o part) = Len(Stream) + k /\ Len(Stream) = m + given
        /\ \A i \in 1..Len(Stream) : (Stream \o part)[i] = Stream[i]
        /\ \A i \in Len(Stream) + 1..Len(Stream) + k :
             (Stream \o part)[i] = part[i - Len(Stream)]
    BY <1>3, <1>4, <1>5, ConcatElements DEF EndsWith
  <2>2. \A i \in 1..m : (Stream \o part)[i].life # lives
    BY <1>2, <1>3, <2>1 DEF EndsWith
  <2>3. ASSUME NEW i \in 1..given + k
        PROVE  (Stream \o part)[m + i].life = lives /\ (Stream \o part)[m + i].number = i
    <3>1. CASE i <= given
      <4>1. i \in 1..given /\ m + i \in 1..Len(Stream)
        BY <1>2, <2>1, <3>1
      <4> QED
        BY <1>3, <2>1, <4>1 DEF EndsWith
    <3>2. CASE i > given
      <4>1. /\ i - given \in 1..k /\ m + i \in Len(Stream) + 1..Len(Stream) + k
            /\ (m + i) - Len(Stream) = i - given /\ given + (i - given) = i
        BY <1>2, <2>1, <3>2
      <4> QED
        BY <1>4, <2>1, <4>1
    <3> QED
      <4>1. given \in Int /\ given + k \in Int
        BY <1>2, <1>a
      <4>2. i <= given \/ i > given
        BY <4>1
      <4> QED
        BY <3>1, <3>2, <4>2
  <2>4. Len(Stream \o part) = m + (given + k)
    BY <1>2, <2>1
  <2> QED
    BY <2>2, <2>3, <2>4 DEF EndsWith
<1>7. EndsWith(Stream', lives', m, given + k)
  BY <1>2, <1>5, <1>6
<1>8. given + k \in 0..given' /\ (phase' = "open" => given + k = given')
  BY <1>1, <1>2
<1> QED
  BY <1>7, <1>8 DEF ContractInv

(* Every step keeps the invariant of the contract.                         *)
LEMMA NextContractInv == ConsoleInv /\ ContractInv /\ [Next]_vars => ContractInv'
<1> SUFFICES ASSUME ConsoleInv, ContractInv, [Next]_vars PROVE ContractInv'
  OBVIOUS
<1>1. /\ terminal \in Seq(Shown) /\ buffer \in Seq(Shown) /\ Stream \in Seq(Shown)
      /\ given \in Nat /\ lives \in Nat
  BY ConcatProperties DEF Stream, ConsoleInv
<1>2. ASSUME Stream' = Stream, UNCHANGED <<given, lives>>,
             phase' \in {"none", "failed", phase}
      PROVE  ContractInv'
  BY <1>2 DEF ContractInv
<1>3. CASE UNCHANGED <<terminal, buffer, given, lives>> /\ phase' \in {"none", "failed", phase}
  BY <1>2, <1>3 DEF Stream
<1>4. CASE /\ terminal' = terminal \o buffer /\ buffer' = <<>>
           /\ UNCHANGED <<given, lives>> /\ phase' \in {"none", "failed", phase}
  <2>1. terminal' = Stream /\ Stream' = Stream
    BY <1>1, <1>4, ConcatEmptySeq DEF Stream
  <2> QED
    BY <1>2, <1>4, <2>1
<1>5. CASE Create
  <2>1. Stream' = Stream /\ lives' = lives + 1 /\ given' = 0
    BY <1>5 DEF Create, Stream
  <2>2. EndsWith(Stream, lives + 1, Len(Stream), 0) /\ Len(Stream) \in Nat
    <3>1. \A i \in 1..Len(Stream) : Stream[i].life \in Nat
      <4>1. \A i \in 1..Len(Stream) : Stream[i] \in Shown
        BY <1>1
      <4> QED
        BY <4>1 DEF Shown
    <3>2. \A i \in 1..Len(Stream) : Stream[i].life < lives + 1
      BY <1>1, <3>1 DEF ConsoleInv, NotAfter
    <3>3. \A i \in 1..Len(Stream) : Stream[i].life # lives + 1
      BY <1>1, <3>1, <3>2
    <3> QED
      BY <1>1, <3>3 DEF EndsWith
  <2>3. EndsWith(Stream', lives', Len(Stream), 0) /\ 0 \in 0..given'
    BY <2>1, <2>2
  <2> QED
    BY <2>1, <2>2, <2>3 DEF ContractInv
<1>6. CASE Spill
  <2>1. buffer # <<>> /\ terminal' = Append(terminal, Head(buffer)) /\ buffer' = Tail(buffer)
        /\ UNCHANGED <<phase, given, lives>>
    BY <1>6 DEF Spill
  <2>2. /\ Head(buffer) \in Shown /\ <<Head(buffer)>> \in Seq(Shown)
        /\ Tail(buffer) \in Seq(Shown) /\ buffer = <<Head(buffer)>> \o Tail(buffer)
    BY <1>1, <2>1
  <2>3. terminal' = terminal \o <<Head(buffer)>>
    BY <1>1, <2>1, <2>2, AppendIsConcat
  <2>4. Stream' = Stream
    BY <1>1, <2>1, <2>2, <2>3, ConcatAssociative DEF Stream
  <2> QED
    BY <1>2, <2>1, <2>4
<1>7. CASE Crash
  <2>1. /\ terminal' = terminal /\ buffer' = <<>> /\ phase' = "none"
        /\ UNCHANGED <<given, lives>>
    BY <1>7 DEF Crash
  <2>2. Stream' = terminal
    BY <1>1, <2>1, ConcatEmptySeq DEF Stream
  <2>3. PICK n \in Nat, k \in 0..given : EndsWith(terminal \o buffer, lives, n, k)
    BY DEF ContractInv, Stream
  <2>4. k \in Nat /\ k <= given
    BY <1>1
  <2>5. EndsWithin(terminal, lives, n, k)
    BY <1>1, <2>3, <2>4, PartEndsWith
  <2>6. PICK m \in Nat, j \in 0..k : EndsWith(terminal, lives, m, j)
    BY <2>5 DEF EndsWithin
  <2>7. EndsWith(Stream', lives', m, j) /\ j \in 0..given'
    BY <1>1, <2>1, <2>2, <2>4, <2>6
  <2> QED
    BY <2>1, <2>7 DEF ContractInv
<1>8. CASE Flush
  BY <1>3, <1>4, <1>8 DEF Flush, Failed
<1>9. CASE Close
  BY <1>3, <1>4, <1>9 DEF Close
<1>10. CASE Application \/ UNCHANGED vars
  BY <1>3, <1>10 DEF Application, vars
<1> QED
  BY <1>5, <1>6, <1>7, <1>8, <1>9, <1>10, WriteKeepsContract DEF Next

(* There is nothing at first.                                              *)
LEMMA InitConsole == Init => ConsoleInv /\ ContractInv /\ Sink!Init
<1> SUFFICES ASSUME Init PROVE ConsoleInv /\ ContractInv /\ Sink!Init
  OBVIOUS
<1>1. Stream = <<>> /\ <<>> \in Seq(Shown) /\ Len(<<>>) = 0
  BY ConcatEmptySeq DEF Init, Stream
<1>2. EndsWith(<<>>, 0, 0, 0)
  BY <1>1 DEF EndsWith
<1>3. Output = <<>>
  <2>1. Numbers(<<>>, 0) = Sink!UpTo(0)
    BY <1>1, <1>2, NumbersOf
  <2>2. Sink!UpTo(0) = <<>>
    BY DEF Sink!UpTo
  <2> QED
    BY <2>1, <2>2 DEF Init, Output
<1>4. ConsoleInv
  BY <1>1 DEF Init, ConsoleInv, InOrder, NotAfter
<1>5. ContractInv
  BY <1>1, <1>2 DEF Init, ContractInv
<1> QED
  BY <1>3, <1>4, <1>5 DEF Init, Sink!Init

(* The console sink keeps what LogSink.h promises, for any number of sinks *)
(* one after the other, faults, crashes, and whatever the application does *)
(* to the stream: the console shows an initial part of what the sink was   *)
(* given, in order and without a gap, and all of it when flush() returns.  *)
THEOREM ConsoleKeepsContract == Spec => ImplementsLogSink
<1>1. Sink!Spec <=> Sink!Init /\ [][Sink!Next]_(Sink!vars)
  BY DEF Sink!Spec
<1>2. ConsoleInv /\ ContractInv /\ [Next]_vars => [Sink!Next]_(Sink!vars)
  BY NextContract DEF SinkStep
<1> QED
  BY <1>1, <1>2, InitConsole, NextConsole, NextContractInv, PTL DEF Spec, ImplementsLogSink

================================================================================

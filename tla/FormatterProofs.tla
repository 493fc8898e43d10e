----------------------------- MODULE FormatterProofs -----------------------------
(***************************************************************************)
(* Proofs about Formatter: for any times, time zones, levels and strings,  *)
(* and any number of waiting records, a line tells the call behind it.     *)
(***************************************************************************)
EXTENDS Formatter, SequenceTheorems, WellFoundedInduction, TLAPS

--------------------------------------------------------------------------------
(* Digits                                                                  *)

(* A set of naturals that has 0 and with each number the next has them all.*)
LEMMA AllNaturals ==
  ASSUME NEW T \in SUBSET Nat, 0 \in T, \A n \in T : n + 1 \in T
  PROVE  T = Nat
<1> DEFINE R == {p \in Nat \X Nat : p[1] < p[2]}
           C == Nat \ T
<1> SUFFICES ASSUME C # {} PROVE FALSE
  OBVIOUS
<1>1. IsWellFoundedOn(R, Nat)
  BY NatLessThanWellFounded DEF OpToRel
<1>2. C \subseteq Nat
  OBVIOUS
<1>3. PICK x \in C : \A y \in C : <<y, x>> \notin R
  <2> HIDE DEF R, C
  <2> QED BY <1>1, <1>2, WFMin
<1>4. x - 1 \in C /\ <<x - 1, x>> \in R
  OBVIOUS
<1> QED
  BY <1>3, <1>4

(* What Digits is at n, as far as it is given by g at smaller numbers      *)
DigitsBy(g, n) == IF n < 10 THEN <<n>> ELSE Append(g[n \div 10], n % 10)

(* g is what Digits was meant to be, up to n.                              *)
UpTo(n, g) == \A k \in 0..n : g[k] = DigitsBy(g, k)

(* A tenth of a number is a smaller one.                                   *)
LEMMA Tenth == \A n \in Nat : n >= 10 => n \div 10 \in 0..n - 1
OBVIOUS

(* There is such a g for each n, ...                                       *)
LEMMA DigitsExist == \A n \in Nat : \E g : UpTo(n, g)
<1> DEFINE T == {n \in Nat : \E g : UpTo(n, g)}
<1>1. 0 \in T
  <2>1. UpTo(0, [k \in {0} |-> <<0>>])
    BY DEF UpTo, DigitsBy
  <2> QED BY <2>1
<1>2. ASSUME NEW n \in T PROVE n + 1 \in T
  <2>1. PICK g : UpTo(n, g)
    OBVIOUS
  <2> DEFINE h == [k \in 0..n + 1 |-> IF k = n + 1 THEN DigitsBy(g, n + 1) ELSE g[k]]
  <2>2. ASSUME NEW k \in 0..n + 1 PROVE h[k] = DigitsBy(h, k)
    <3>1. k >= 10 => k \div 10 \in 0..n /\ h[k \div 10] = g[k \div 10]
      BY Tenth
    <3>2. DigitsBy(h, k) = DigitsBy(g, k)
      <4> HIDE DEF h
      <4> QED BY <3>1 DEF DigitsBy
    <3> QED
      BY <2>1, <3>2 DEF UpTo
  <2>3. UpTo(n + 1, h)
    <3> HIDE DEF h
    <3> QED BY <2>2 DEF UpTo
  <2> QED BY <2>3
<1> HIDE DEF T
<1>3. T \in SUBSET Nat
  BY DEF T
<1>4. T = Nat
  BY <1>1, <1>2, <1>3, AllNaturals
<1> QED
  BY <1>4 DEF T

(* ... and two of them agree.                                              *)
LEMMA DigitsAgree ==
  \A n \in Nat : \A g, h : UpTo(n, g) /\ UpTo(n, h) => \A k \in 0..n : g[k] = h[k]
<1> DEFINE T == {n \in Nat : \A g, h :
                   UpTo(n, g) /\ UpTo(n, h) => \A k \in 0..n : g[k] = h[k]}
<1>1. 0 \in T
  <2>1. ASSUME NEW g, UpTo(0, g) PROVE g[0] = <<0>>
    BY <2>1 DEF UpTo, DigitsBy
  <2>2. ASSUME NEW g, NEW h, UpTo(0, g), UpTo(0, h), NEW k \in 0..0 PROVE g[k] = h[k]
    BY <2>1, <2>2
  <2> QED BY <2>2
<1>2. ASSUME NEW n \in T PROVE n + 1 \in T
  <2>1. ASSUME NEW g, NEW h, UpTo(n + 1, g), UpTo(n + 1, h), NEW k \in 0..n + 1
        PROVE  g[k] = h[k]
    <3>1. UpTo(n, g) /\ UpTo(n, h)
      BY <2>1 DEF UpTo
    <3>2. \A j \in 0..n : g[j] = h[j]
      BY <3>1
    <3>3. k >= 10 => k \div 10 \in 0..n
      BY Tenth
    <3>4. g[k] = DigitsBy(g, k) /\ h[k] = DigitsBy(h, k)
      BY <2>1 DEF UpTo
    <3> QED
      BY <3>2, <3>3, <3>4 DEF DigitsBy
  <2> QED BY <2>1
<1> HIDE DEF T
<1>3. T \in SUBSET Nat
  BY DEF T
<1>4. T = Nat
  BY <1>1, <1>2, <1>3, AllNaturals
<1> QED
  BY <1>4 DEF T

(* So Digits is what its definition says, and not an arbitrary value.      *)
LEMMA DigitsDefined == \A n \in Nat : Digits[n] = DigitsBy(Digits, n)
<1> DEFINE G(n) == CHOOSE g : UpTo(n, g)
<1> DEFINE f == [n \in Nat |-> G(n)[n]]
<1>1. \A n \in Nat : UpTo(n, G(n))
  BY DigitsExist
<1> HIDE DEF G
<1>2. ASSUME NEW n \in Nat, NEW m \in 0..n PROVE G(n)[m] = f[m]
  <2>1. UpTo(m, G(n)) /\ UpTo(m, G(m))
    BY <1>1 DEF UpTo
  <2> QED
    BY <2>1, DigitsAgree
<1>3. ASSUME NEW n \in Nat
      PROVE  f[n] = IF n < 10 THEN <<n>> ELSE Append(f[n \div 10], n % 10)
  <2>1. G(n)[n] = DigitsBy(G(n), n)
    BY <1>1 DEF UpTo
  <2>2. n >= 10 => G(n)[n \div 10] = f[n \div 10]
    BY <1>2, Tenth
  <2>3. f[n] = G(n)[n]
    OBVIOUS
  <2> HIDE DEF f
  <2> QED
    BY <2>1, <2>2, <2>3 DEF DigitsBy
<1>4. f = [n \in Nat |-> IF n < 10 THEN <<n>> ELSE Append(f[n \div 10], n % 10)]
  <2>1. f = [n \in Nat |-> f[n]]
    OBVIOUS
  <2> HIDE DEF f
  <2> QED
    BY <1>3, <2>1
<1> DEFINE D == CHOOSE g : g = [n \in Nat |-> IF n < 10 THEN <<n>>
                                             ELSE Append(g[n \div 10], n % 10)]
<1> HIDE DEF f
<1>5. D = [n \in Nat |-> IF n < 10 THEN <<n>> ELSE Append(D[n \div 10], n % 10)]
  BY <1>4
<1>6. Digits = D
  BY DEF Digits
<1> HIDE DEF D
<1> QED
  BY <1>5, <1>6 DEF DigitsBy

(* A number is its tenth and one more digit.                               *)
LEMMA DigitsStep ==
  ASSUME NEW n \in Nat
  PROVE  /\ n < 10 => Digits[n] = <<n>>
         /\ n >= 10 => Digits[n] = Append(Digits[n \div 10], n % 10)
<1>1. Digits[n] = DigitsBy(Digits, n)
  BY DigitsDefined
<1> HIDE DEF Digits
<1> QED
  BY <1>1 DEF DigitsBy

(* What is in a sequence of up to three digits                             *)
One(s, a) == s \in Seq(Nat) /\ Len(s) = 1 /\ s[1] = a
Two(s, a, b) == s \in Seq(Nat) /\ Len(s) = 2 /\ s[1] = a /\ s[2] = b
Three(s, a, b, c) ==
  s \in Seq(Nat) /\ Len(s) = 3 /\ s[1] = a /\ s[2] = b /\ s[3] = c

(* One more element at the end                                             *)
LEMMA OneMore ==
  ASSUME NEW s \in Seq(Nat), NEW e \in Nat
  PROVE  /\ Append(s, e) \in Seq(Nat) /\ Len(Append(s, e)) = Len(s) + 1
         /\ Append(s, e)[Len(s) + 1] = e
         /\ \A i \in 1..Len(s) : Append(s, e)[i] = s[i]
BY AppendProperties

(* One more digit at the end                                               *)
LEMMA Longer ==
  ASSUME NEW s, NEW a \in Nat, NEW b \in Nat, NEW c \in Nat
  PROVE  /\ One(s, a) => Two(Append(s, b), a, b)
         /\ Two(s, a, b) => Three(Append(s, c), a, b, c)
<1>1. ASSUME One(s, a) PROVE Two(Append(s, b), a, b)
  <2>1. s \in Seq(Nat) /\ Len(s) = 1 /\ s[1] = a
    BY <1>1 DEF One
  <2> DEFINE l == Append(s, b)
  <2>2. /\ l \in Seq(Nat) /\ Len(l) = Len(s) + 1 /\ l[Len(s) + 1] = b
        /\ \A i \in 1..Len(s) : l[i] = s[i]
    BY <2>1, OneMore
  <2> HIDE DEF l
  <2>3. Two(l, a, b)
    BY <2>1, <2>2 DEF Two
  <2> QED BY <2>3 DEF l
<1>2. ASSUME Two(s, a, b) PROVE Three(Append(s, c), a, b, c)
  <2>1. s \in Seq(Nat) /\ Len(s) = 2 /\ s[1] = a /\ s[2] = b
    BY <1>2 DEF Two
  <2> DEFINE l == Append(s, c)
  <2>2. /\ l \in Seq(Nat) /\ Len(l) = Len(s) + 1 /\ l[Len(s) + 1] = c
        /\ \A i \in 1..Len(s) : l[i] = s[i]
    BY <2>1, OneMore
  <2> HIDE DEF l
  <2>3. Three(l, a, b, c)
    BY <2>1, <2>2 DEF Three
  <2> QED BY <2>3 DEF l
<1> QED
  BY <1>1, <1>2

(* One sequence after another                                              *)
LEMMA Joined ==
  ASSUME NEW s, NEW t, NEW a \in Nat, NEW b \in Nat, NEW c \in Nat
  PROVE  /\ One(s, a) /\ One(t, b) => Two(s \o t, a, b)
         /\ One(s, a) /\ Two(t, b, c) => Three(s \o t, a, b, c)
         /\ Two(s, a, b) /\ One(t, c) => Three(s \o t, a, b, c)
         /\ s = <<>> /\ Three(t, a, b, c) => Three(s \o t, a, b, c)
         /\ t = <<>> /\ One(s, a) => One(s \o t, a)
<1>1. <<>> \in Seq(Nat) /\ Len(<<>>) = 0
  OBVIOUS
<1>2. ASSUME One(s, a), One(t, b) PROVE Two(s \o t, a, b)
  <2> DEFINE l == s \o t
  <2>1. s \in Seq(Nat) /\ t \in Seq(Nat)
    BY <1>2 DEF One, Two
  <2>2. /\ l \in Seq(Nat) /\ Len(l) = Len(s) + Len(t)
        /\ \A i \in 1..Len(s) + Len(t) :
             l[i] = IF i <= Len(s) THEN s[i] ELSE t[i - Len(s)]
    BY <2>1, ConcatProperties
  <2> HIDE DEF l
  <2>3. Two(l, a, b)
    BY <1>2, <2>2 DEF One, Two
  <2> QED BY <2>3 DEF l
<1>3. ASSUME One(s, a), Two(t, b, c) PROVE Three(s \o t, a, b, c)
  <2> DEFINE l == s \o t
  <2>1. s \in Seq(Nat) /\ t \in Seq(Nat)
    BY <1>3 DEF One, Two
  <2>2. /\ l \in Seq(Nat) /\ Len(l) = Len(s) + Len(t)
        /\ \A i \in 1..Len(s) + Len(t) :
             l[i] = IF i <= Len(s) THEN s[i] ELSE t[i - Len(s)]
    BY <2>1, ConcatProperties
  <2> HIDE DEF l
  <2>3. Three(l, a, b, c)
    BY <1>3, <2>2 DEF One, Two, Three
  <2> QED BY <2>3 DEF l
<1>4. ASSUME Two(s, a, b), One(t, c) PROVE Three(s \o t, a, b, c)
  <2> DEFINE l == s \o t
  <2>1. s \in Seq(Nat) /\ t \in Seq(Nat)
    BY <1>4 DEF One, Two
  <2>2. /\ l \in Seq(Nat) /\ Len(l) = Len(s) + Len(t)
        /\ \A i \in 1..Len(s) + Len(t) :
             l[i] = IF i <= Len(s) THEN s[i] ELSE t[i - Len(s)]
    BY <2>1, ConcatProperties
  <2> HIDE DEF l
  <2>3. Three(l, a, b, c)
    BY <1>4, <2>2 DEF One, Two, Three
  <2> QED BY <2>3 DEF l
<1>5. ASSUME s = <<>>, Three(t, a, b, c) PROVE Three(s \o t, a, b, c)
  BY <1>1, <1>5, ConcatProperties DEF Three
<1>6. ASSUME t = <<>>, One(s, a) PROVE One(s \o t, a)
  BY <1>1, <1>6, ConcatProperties DEF One
<1> QED
  BY <1>2, <1>3, <1>4, <1>5, <1>6

(* The zeros before a number of milliseconds                               *)
LEMMA Zeros ==
  ASSUME NEW m \in Nat
  PROVE  /\ m < 10 => Two(Padding(m), 0, 0)
         /\ m >= 10 /\ m < 100 => One(Padding(m), 0)
         /\ m >= 100 => Padding(m) = <<>>
<1>1. One(<<0>>, 0)
  BY DEF One
<1>2. ASSUME m < 10 PROVE Two(Padding(m), 0, 0)
  <2>1. Padding(m) = <<0>> \o <<0>>
    BY <1>2 DEF Padding
  <2> QED
    BY <1>1, <2>1, Joined
<1>3. ASSUME m >= 10, m < 100 PROVE One(Padding(m), 0)
  <2>1. Padding(m) = <<0>> \o <<>>
    <3>1. ~(m < 10)
      BY <1>3
    <3> QED
      BY <1>3, <3>1, Zenon DEF Padding
  <2> QED
    BY <1>1, <2>1, Joined
<1>4. ASSUME m >= 100 PROVE Padding(m) = <<>>
  <2>1. ~(m < 10) /\ ~(m < 100)
    BY <1>4
  <2>2. Padding(m) = <<>> \o <<>>
    BY <2>1, Zenon DEF Padding
  <2>3. <<>> \in Seq(Nat)
    OBVIOUS
  <2> QED
    BY <2>2, <2>3, ConcatEmptySeq
<1> QED
  BY <1>2, <1>3, <1>4

(* The milliseconds of a line are three digits that give back the number.  *)
ThreeDigits(s, m) == Len(s) = 3 /\ 100 * s[1] + 10 * s[2] + s[3] = m

LEMMA Milliseconds ==
  ASSUME NEW m \in 0..999
  PROVE  ThreeDigits(Padding(m) \o Digits[m], m)
<1> DEFINE t == m \div 10
<1>1. m \in Nat /\ t \in Nat /\ m % 10 \in Nat /\ m = 10 * t + (m % 10)
  OBVIOUS
<1> DEFINE u == t \div 10
<1> DEFINE s == Padding(m) \o Digits[m]
<1> SUFFICES ThreeDigits(s, m)
  OBVIOUS
<1>2. u \in Nat /\ t % 10 \in Nat /\ t = 10 * u + (t % 10)
  OBVIOUS
<1> HIDE DEF s
<1>3. ASSUME NEW n \in Nat, n < 10 PROVE One(Digits[n], n)
  <2>1. One(<<n>>, n)
    BY DEF One
  <2>2. Digits[n] = <<n>>
    BY <1>3, DigitsStep
  <2> QED BY <2>1, <2>2
<1> HIDE DEF u
<1>4. CASE m < 10
  <2>1. Three(s, 0, 0, m)
    BY <1>1, <1>3, <1>4, Joined, Zeros DEF s
  <2> QED
    BY <1>1, <2>1 DEF Three, ThreeDigits
<1>5. CASE m >= 10 /\ m < 100
  <2>1. t < 10
    BY <1>5
  <2>2. Digits[m] = Append(Digits[t], m % 10)
    BY <1>1, <1>5, DigitsStep
  <2> HIDE DEF t
  <2>3. Two(Digits[m], t, m % 10)
    BY <1>1, <1>3, <2>1, <2>2, Longer
  <2>4. Three(s, 0, t, m % 10)
    BY <1>1, <1>5, <2>3, Joined, Zeros DEF s
  <2> QED
    BY <1>1, <2>4 DEF Three, ThreeDigits
<1>6. CASE m >= 100
  <2>1. t >= 10 /\ t < 100
    BY <1>6
  <2>2. m >= 10
    BY <1>6
  <2>3. Digits[m] = Append(Digits[t], m % 10)
    BY <1>1, <2>2, DigitsStep
  <2> HIDE DEF t
  <2>4. Digits[t] = Append(Digits[u], t % 10)
    BY <1>1, <2>1, DigitsStep DEF u
  <2>5. u < 10
    BY <1>1, <2>1 DEF u
  <2>6. Two(Digits[t], u, t % 10)
    BY <1>1, <1>2, <1>3, <2>4, <2>5, Longer
  <2>7. Three(Digits[m], u, t % 10, m % 10)
    BY <1>1, <1>2, <2>3, <2>6, Longer
  <2>8. Three(s, u, t % 10, m % 10)
    BY <1>1, <1>2, <1>6, <2>7, Joined, Zeros DEF s
  <2> QED
    BY <1>1, <1>2, <2>8 DEF Three, ThreeDigits
<1> QED
  BY <1>4, <1>5, <1>6

--------------------------------------------------------------------------------
(* The records                                                             *)

(* The text of a record's file name, whatever the caller's string holds by *)
(* now                                                                     *)
TextOf(file) ==
  CASE file.staticFile = "null" -> file.ownedFile
    [] file.staticFile = "empty" -> ""
    [] file.staticFile = "static" -> "file.cpp"

Names == Texts \cup {"", "file.cpp"}
Origins == [time : Nat, level : Levels, thread : Callers, file : Names,
            line : LineNumbers, message : Texts]
Entries == [timestamp : Nat, level : Levels, threadId : Callers,
            file : [staticFile : {"null", "empty", "static"}, ownedFile : Names],
            line : LineNumbers, message : Texts, origin : Origins]

(* A record says what the call behind it said.                             *)
Faithful(r) ==
  /\ r.timestamp = r.origin.time /\ r.level = r.origin.level
  /\ r.threadId = r.origin.thread /\ r.line = r.origin.line
  /\ r.message = r.origin.message
  /\ TextOf(r.file) = r.origin.file

Records == {r \in Entries : Faithful(r)}

StateInv ==
  /\ buffer \in Texts /\ zone \in Zones
  /\ zones \subseteq Nat /\ zone \in zones
  /\ records \in Seq(Records)

(* The cache is filled when a line was written, and it is that line's.     *)
CacheInv ==
  /\ line = <<>> => ~hasCached
  /\ line # <<>> =>
       /\ hasCached /\ cachedSecond = Second(called.time)
       /\ \E z \in zones : cachedPrefix = cachedSecond + z

(* The last line is that of the call behind it.                            *)
LineOf(prefix, origin) ==
  [time |-> prefix,
   ms |-> Padding(origin.time % 1000) \o Digits[origin.time % 1000],
   level |-> LevelToString(origin.level), thread |-> ThreadHash[origin.thread],
   file |-> origin.file, line |-> origin.line, message |-> origin.message]

LineInv == line # <<>> => called \in Origins /\ line = LineOf(cachedPrefix, called)

FormatterInv == StateInv /\ CacheInv /\ LineInv

(* logImpl() puts all the caller passed into the record.                   *)
LEMMA CallStep ==
  ASSUME FormatterInv, Call
  PROVE  FormatterInv'
<1> USE FormatterAssumption DEF FormatterInv, StateInv
<1>1. PICK caller \in Callers, level \in Levels, number \in LineNumbers, now \in Times,
           pointer \in Pointers, isStatic \in BOOLEAN :
        LogImpl(caller, level, pointer, number, isStatic, now)
        /\ (isStatic => pointer \in {"null", "static"})
  BY DEF Call, Pointers
<1> DEFINE file == FileOf(pointer, isStatic)
           text == Contents(pointer)
           origin == [time |-> now, level |-> level, thread |-> caller,
                      file |-> text, line |-> number, message |-> buffer]
           r == [timestamp |-> now, level |-> level, threadId |-> caller,
                 file |-> file, line |-> number, message |-> buffer,
                 origin |-> origin]
<1>2. text \in Names
  BY <1>1 DEF Pointers, Contents, Names
<1>3. file \in [staticFile : {"null", "empty", "static"}, ownedFile : Names]
  <2>1. CASE isStatic
    BY <1>1, <2>1 DEF FileOf, Names
  <2>2. CASE ~isStatic
    <3>1. file = [staticFile |-> "null", ownedFile |-> text]
      BY <2>2 DEF FileOf
    <3> QED
      BY <1>2, <3>1
  <2> QED
    BY <2>1, <2>2
<1>4. TextOf(file) = text
  <2>1. CASE isStatic /\ pointer = "null"
    BY <2>1 DEF FileOf, TextOf, Contents
  <2>2. CASE isStatic /\ pointer = "static"
    BY <2>2 DEF FileOf, TextOf, Contents
  <2>3. CASE ~isStatic
    <3>1. file = [staticFile |-> "null", ownedFile |-> text]
      BY <2>3 DEF FileOf
    <3> QED
      BY <3>1 DEF TextOf
  <2> QED
    BY <1>1, <2>1, <2>2, <2>3
<1>5. r \in Records
  <2> HIDE DEF file, text
  <2>1. origin \in Origins
    BY <1>2 DEF Origins
  <2> QED
    BY <1>3, <1>4, <2>1 DEF Records, Entries, Faithful
<1>6. records' = Append(records, r)
      /\ UNCHANGED <<buffer, zone, cacheVars, line, called, zones>>
  BY <1>1 DEF LogImpl
<1> HIDE DEF r
<1>7. StateInv'
  BY <1>5, <1>6
<1>8. CacheInv' /\ LineInv'
  BY <1>6 DEF CacheInv, LineInv, cacheVars
<1> QED
  BY <1>7, <1>8

(* formatMessage() asks for the local time when the second is another one, *)
(* and writes what the record says.                                        *)
LEMMA FormatStep ==
  ASSUME FormatterInv, FormatMessage
  PROVE  FormatterInv'
<1> DEFINE r == Head(records)
           m == r.timestamp % 1000
<1>1. /\ records \in Seq(Records) /\ records # <<>>
      /\ buffer \in Texts /\ zone \in Zones /\ zones \subseteq Nat /\ zone \in zones
  BY DEF FormatterInv, StateInv, FormatMessage
<1>2. r \in Records /\ Tail(records) \in Seq(Records)
  BY <1>1, HeadTailProperties
<1>3. /\ r.origin \in Origins /\ Faithful(r) /\ r.timestamp \in Nat
      /\ r.file \in [staticFile : {"null", "empty", "static"}, ownedFile : Names]
  BY <1>2 DEF Records, Entries
<1>4. r.timestamp = r.origin.time /\ r.origin.time \in Nat
  BY <1>3 DEF Faithful, Origins
<1>5. (IF r.file.staticFile = "null" THEN r.file.ownedFile
       ELSE Contents(r.file.staticFile)) = r.origin.file
  <2>1. TextOf(r.file) = r.origin.file
    BY <1>3 DEF Faithful
  <2> QED
    BY <1>3, <2>1 DEF TextOf, Contents
<1>6. /\ RefreshPrefix(r.timestamp) /\ called' = r.origin
      /\ line' = [time |-> cachedPrefix', ms |-> Padding(m) \o Digits[m],
                  level |-> LevelToString(r.level),
                  thread |-> ThreadHash[r.threadId],
                  file |-> IF r.file.staticFile = "null" THEN r.file.ownedFile
                           ELSE Contents(r.file.staticFile),
                  line |-> r.line, message |-> r.message]
      /\ zones' = IF line # <<>> /\ Second(called.time) = Second(r.origin.time)
                  THEN zones ELSE {zone}
      /\ records' = Tail(records) /\ buffer' = buffer /\ zone' = zone
  BY DEF FormatMessage
<1> HIDE DEF r, m
<1>7. line' = LineOf(cachedPrefix', r.origin)
  <2>1. m = r.origin.time % 1000
    BY <1>4 DEF m
  <2>2. /\ r.level = r.origin.level /\ r.threadId = r.origin.thread
        /\ r.line = r.origin.line /\ r.message = r.origin.message
    BY <1>3 DEF Faithful
  <2>3. line' = [time |-> cachedPrefix',
                 ms |-> Padding(r.origin.time % 1000) \o Digits[r.origin.time % 1000],
                 level |-> LevelToString(r.origin.level),
                 thread |-> ThreadHash[r.origin.thread], file |-> r.origin.file,
                 line |-> r.origin.line, message |-> r.origin.message]
    <3> DEFINE text == IF r.file.staticFile = "null" THEN r.file.ownedFile
                       ELSE Contents(r.file.staticFile)
               digits(n) == Padding(n) \o Digits[n]
    <3>1. text = r.origin.file
      BY <1>5
    <3>2. digits(m) = digits(r.origin.time % 1000)
      BY <2>1
    <3>3. line' = [time |-> cachedPrefix', ms |-> digits(m),
                   level |-> LevelToString(r.level), thread |-> ThreadHash[r.threadId],
                   file |-> text, line |-> r.line, message |-> r.message]
      BY <1>6
    <3>4. LevelToString(r.level) = LevelToString(r.origin.level)
      BY <2>2
    <3>5. ThreadHash[r.threadId] = ThreadHash[r.origin.thread]
      BY <2>2
    <3>6. line' = [time |-> cachedPrefix', ms |-> digits(r.origin.time % 1000),
                   level |-> LevelToString(r.origin.level),
                   thread |-> ThreadHash[r.origin.thread], file |-> r.origin.file,
                   line |-> r.origin.line, message |-> r.origin.message]
      <4> HIDE DEF text, digits
      <4> QED
        BY <2>2, <3>1, <3>2, <3>3, <3>4, <3>5
    <3> QED
      BY <3>6
  <2> QED
    BY <2>3, Zenon DEF LineOf
<1>8. StateInv'
  BY <1>1, <1>2, <1>6, FormatterAssumption DEF StateInv
<1>9. LineInv'
  BY <1>3, <1>6, <1>7 DEF LineInv
<1>10. line' # <<>>
  <2>1. DOMAIN line' = {"time", "ms", "level", "thread", "file", "line", "message"}
    BY <1>6
  <2> QED
    BY <2>1
<1>11. hasCached' /\ cachedSecond' = Second(r.origin.time)
  BY <1>4, <1>6 DEF RefreshPrefix, CacheMiss, cacheVars
<1>12. \E z \in zones' : cachedPrefix' = cachedSecond' + z
  <2>1. CASE CacheMiss(r.timestamp)
    <3>1. cachedPrefix' = cachedSecond' + zone
      BY <1>6, <2>1 DEF RefreshPrefix, ToLocalTime
    <3>2. zone \in zones'
      BY <1>1, <1>6
    <3> QED
      BY <3>1, <3>2
  <2>2. CASE ~CacheMiss(r.timestamp)
    <3>1. hasCached /\ Second(r.origin.time) = cachedSecond
          /\ cachedPrefix' = cachedPrefix /\ cachedSecond' = cachedSecond
      BY <1>4, <1>6, <2>2 DEF RefreshPrefix, CacheMiss, cacheVars
    <3>2. line # <<>> /\ cachedSecond = Second(called.time)
          /\ \E z \in zones : cachedPrefix = cachedSecond + z
      BY <3>1 DEF FormatterInv, CacheInv
    <3>3. zones' = zones
      BY <1>6, <3>1, <3>2
    <3> QED
      BY <3>1, <3>2, <3>3
  <2> QED
    BY <2>1, <2>2
<1>13. CacheInv'
  BY <1>6, <1>10, <1>11, <1>12 DEF CacheInv, Second
<1> QED
  BY <1>8, <1>9, <1>13 DEF FormatterInv

(* The other steps: the caller reuses its string, init() runs again, the   *)
(* time zone changes.                                                      *)
LEMMA OtherSteps ==
  ASSUME FormatterInv, ReuseBuffer \/ Restart \/ SetZone \/ UNCHANGED vars
  PROVE  FormatterInv'
<1> USE FormatterAssumption DEF FormatterInv, StateInv, CacheInv, LineInv, cacheVars
<1>1. CASE ReuseBuffer
  BY <1>1 DEF ReuseBuffer
<1>2. CASE Restart
  BY <1>2 DEF Restart, ResetCache
<1>3. CASE SetZone
  BY <1>3 DEF SetZone
<1>4. CASE UNCHANGED vars
  BY <1>4 DEF vars
<1> QED
  BY <1>1, <1>2, <1>3, <1>4

LEMMA FormatterInvariant == Spec => []FormatterInv
<1>1. Init => FormatterInv
  BY FormatterAssumption
     DEF Init, FormatterInv, StateInv, CacheInv, LineInv
<1>2. FormatterInv /\ [Next]_vars => FormatterInv'
  BY CallStep, FormatStep, OtherSteps DEF Next
<1> QED
  BY <1>1, <1>2, PTL DEF Spec

--------------------------------------------------------------------------------
(* A line names the level, thread, place and message of its call, and gives*)
(* back the milliseconds of its time in three digits, however late the     *)
(* worker formats it and whatever has become of the caller's strings.      *)
THEOREM LineCorrect == Spec => []LineTellsCall
<1>1. FormatterInv => LineTellsCall
  <2> SUFFICES ASSUME FormatterInv, line # <<>>
               PROVE  /\ line.level = LevelToString(called.level)
                      /\ line.thread = ThreadHash[called.thread]
                      /\ line.file = called.file /\ line.line = called.line
                      /\ line.message = called.message
                      /\ Len(line.ms) = 3
                      /\ 100 * line.ms[1] + 10 * line.ms[2] + line.ms[3]
                           = called.time % 1000
    BY DEF LineTellsCall
  <2> DEFINE m == called.time % 1000
             ms == Padding(m) \o Digits[m]
  <2>1. called.time \in Nat /\ line = LineOf(cachedPrefix, called)
    BY DEF FormatterInv, LineInv, Origins
  <2>2. m \in 0..999
    <3> DEFINE t == called.time
    <3>1. t \in Nat
      BY <2>1
    <3> HIDE DEF t
    <3>2. t % 1000 \in 0..999
      BY <3>1
    <3> QED BY <3>2 DEF t
  <2> HIDE DEF m
  <2>3. ThreeDigits(ms, m)
    BY <2>2, Milliseconds
  <2>4. line.ms = ms
    BY <2>1 DEF LineOf, m
  <2> HIDE DEF ms
  <2>5. Len(line.ms) = 3 /\ 100 * line.ms[1] + 10 * line.ms[2] + line.ms[3] = m
    BY <2>3, <2>4 DEF ThreeDigits
  <2>6. /\ line.level = LevelToString(called.level)
        /\ line.thread = ThreadHash[called.thread]
        /\ line.file = called.file /\ line.line = called.line
        /\ line.message = called.message
    BY <2>1 DEF LineOf
  <2> QED
    BY <2>5, <2>6 DEF m
<1> QED
  BY <1>1, FormatterInvariant, PTL

(* The date and time of a line are those of its record's second, in a time *)
(* zone in effect since init() and since the log last showed another       *)
(* second: the cached prefix is never that of another second or of an      *)
(* earlier lifecycle.                                                      *)
THEOREM TimeCorrect == Spec => []TimeOfRecord
<1>1. FormatterInv => TimeOfRecord
  BY DEF FormatterInv, CacheInv, LineInv, LineOf, TimeOfRecord
<1> QED
  BY <1>1, FormatterInvariant, PTL

================================================================================

---------------------------- MODULE FileSinkProofs ----------------------------
(***************************************************************************)
(* Proofs about FileSink for any sizes of records and files, any widths of *)
(* size_t that hold them, and any number of days, files, sinks and records *)
(* over which the bounds let it run: the sizes of its files, and that it   *)
(* keeps the promises of LogSink.                                          *)
(***************************************************************************)
EXTENDS FileSinkContract, SequenceTheorems, FiniteSetTheorems, FunctionTheorems,
        WellFoundedInduction, TLAPS

--------------------------------------------------------------------------------
(* Induction over the naturals, for a set of them                          *)

(* A set of naturals that has 0 and with each number the next has them all.*)
LEMMA AllNaturals ==
  ASSUME NEW T \in SUBSET Nat, 0 \in T, \A n \in T : n + 1 \in T
  PROVE  T = Nat
<1> DEFINE R == {p \in Nat \X Nat : p[1] < p[2]}
           C == Nat \ T
<1> SUFFICES ASSUME C # {} PROVE FALSE
  OBVIOUS
<1>1. IsWellFoundedOn(R, Nat)
  BY NatLessThanWellFounded DEF OpToRel
<1>2. C \subseteq Nat
  OBVIOUS
<1>3. PICK x \in C : \A y \in C : <<y, x>> \notin R
  <2> HIDE DEF R, C
  <2> QED BY <1>1, <1>2, WFMin
<1>4. x - 1 \in C /\ <<x - 1, x>> \in R
  OBVIOUS
<1> QED
  BY <1>3, <1>4

--------------------------------------------------------------------------------
(* SizeOf                                                                  *)

(* A record has a size, the newline at least.                              *)
LEMMA RecordSize == ASSUME NEW r \in Record PROVE r.size \in Nat \ {0}
BY SinkAssumption DEF Record

(* g adds up the sizes of the records of s, from the first on.             *)
Sums(s, g) ==
  g = [i \in 0..Len(s) |-> IF i = 0 THEN 0 ELSE g[i - 1] + s[i].size]

(* The sums of a sequence exist, so that SizeOf() is what it was meant to  *)
(* be and not an arbitrary value.                                          *)
LEMMA SumsExist == ASSUME NEW s \in Seq(Record) PROVE \E g : Sums(s, g)
<1> DEFINE T == {n \in Nat : n <= Len(s) => \E g : Sums(SubSeq(s, 1, n), g)}
<1>1. 0 \in T
  <2>1. Sums(SubSeq(s, 1, 0), [i \in 0..0 |-> 0])
    BY DEF Sums
  <2> QED BY <2>1
<1>2. ASSUME NEW n \in T PROVE n + 1 \in T
  <2> SUFFICES ASSUME n + 1 <= Len(s)
               PROVE  \E g : Sums(SubSeq(s, 1, n + 1), g)
    OBVIOUS
  <2>1. PICK g : Sums(SubSeq(s, 1, n), g)
    OBVIOUS
  <2>2. /\ SubSeq(s, 1, n) \in Seq(Record) /\ Len(SubSeq(s, 1, n)) = n
        /\ SubSeq(s, 1, n + 1) \in Seq(Record) /\ Len(SubSeq(s, 1, n + 1)) = n + 1
        /\ \A i \in 1..n : SubSeq(s, 1, n)[i] = s[i]
        /\ \A i \in 1..n + 1 : SubSeq(s, 1, n + 1)[i] = s[i]
    OBVIOUS
  <2> DEFINE h == [i \in 0..n + 1 |-> IF i = n + 1 THEN g[n] + s[n + 1].size ELSE g[i]]
  <2>3. \A i \in 0..n : g[i] = IF i = 0 THEN 0 ELSE g[i - 1] + s[i].size
    BY <2>1, <2>2 DEF Sums
  <2>4. h = [i \in 0..n + 1 |-> IF i = 0 THEN 0 ELSE h[i - 1] + s[i].size]
    BY <2>3
  <2>5. Sums(SubSeq(s, 1, n + 1), h)
    <3> HIDE DEF h
    <3> QED BY <2>2, <2>4 DEF Sums
  <2> QED BY <2>5
<1>3. T = Nat
  <2> HIDE DEF T
  <2>1. T \in SUBSET Nat
    BY DEF T
  <2> QED BY <1>1, <1>2, <2>1, AllNaturals
<1>4. \A n \in Nat : n <= Len(s) => \E g : Sums(SubSeq(s, 1, n), g)
  BY <1>3
<1>5. Len(s) \in Nat /\ Len(s) <= Len(s)
  OBVIOUS
<1>6. PICK g : Sums(SubSeq(s, 1, Len(s)), g)
  BY <1>4, <1>5
<1>7. SubSeq(s, 1, Len(s)) = s
  OBVIOUS
<1> QED
  BY <1>6, <1>7

(* Two functions that add up the same first records agree on those.        *)
LEMMA SumsAgree ==
  ASSUME NEW s \in Seq(Record), NEW t \in Seq(Record), NEW g, NEW h,
         Sums(s, g), Sums(t, h), Len(s) <= Len(t),
         \A i \in 1..Len(s) : s[i] = t[i]
  PROVE  \A i \in 0..Len(s) : g[i] = h[i]
<1> DEFINE T == {n \in Nat : n <= Len(s) => g[n] = h[n]}
<1>1. 0 \in T
  BY DEF Sums
<1>2. ASSUME NEW n \in T PROVE n + 1 \in T
  <2> SUFFICES ASSUME n + 1 <= Len(s) PROVE g[n + 1] = h[n + 1]
    OBVIOUS
  <2>1. g[n + 1] = g[n] + s[n + 1].size /\ h[n + 1] = h[n] + t[n + 1].size
    BY DEF Sums
  <2> QED BY <2>1
<1>3. T = Nat
  <2> HIDE DEF T
  <2>1. T \in SUBSET Nat
    BY DEF T
  <2> QED BY <1>1, <1>2, <2>1, AllNaturals
<1> QED
  BY <1>3

(* SizeOf() is the last of the sums.                                       *)
LEMMA SizeIsSum ==
  ASSUME NEW s \in Seq(Record) PROVE \E g : Sums(s, g) /\ SizeOf(s) = g[Len(s)]
<1> DEFINE sum == CHOOSE g : g = [i \in 0..Len(s) |-> IF i = 0 THEN 0 ELSE g[i - 1] + s[i].size]
<1>1. Sums(s, sum)
  BY SumsExist DEF Sums
<1>2. SizeOf(s) = sum[Len(s)]
  BY DEF SizeOf
<1> QED
  BY <1>1, <1>2

(* The sums are naturals.                                                  *)
LEMMA SumsType ==
  ASSUME NEW s \in Seq(Record), NEW g, Sums(s, g)
  PROVE  \A i \in 0..Len(s) : g[i] \in Nat
<1> DEFINE T == {n \in Nat : n <= Len(s) => g[n] \in Nat}
<1>1. 0 \in T
  BY DEF Sums
<1>2. ASSUME NEW n \in T PROVE n + 1 \in T
  <2> SUFFICES ASSUME n + 1 <= Len(s) PROVE g[n + 1] \in Nat
    OBVIOUS
  <2>1. g[n + 1] = g[n] + s[n + 1].size
    BY DEF Sums
  <2>2. s[n + 1].size \in Nat
    <3>1. s[n + 1] \in Record
      OBVIOUS
    <3> QED BY <3>1, RecordSize
  <2> QED BY <2>1, <2>2
<1>3. T = Nat
  <2> HIDE DEF T
  <2>1. T \in SUBSET Nat
    BY DEF T
  <2> QED BY <1>1, <1>2, <2>1, AllNaturals
<1> QED
  BY <1>3

(* A sequence of records has a size.                                       *)
LEMMA SizeType == ASSUME NEW s \in Seq(Record) PROVE SizeOf(s) \in Nat
BY SizeIsSum, SumsType

(* No records have no size.                                                *)
LEMMA SizeOfNone == SizeOf(<<>>) = 0
<1>1. <<>> \in Seq(Record) /\ Len(<<>>) = 0
  OBVIOUS
<1>2. PICK g : Sums(<<>>, g) /\ SizeOf(<<>>) = g[Len(<<>>)]
  BY <1>1, SizeIsSum
<1> QED
  BY <1>1, <1>2 DEF Sums

(* Another record adds its size.                                           *)
LEMMA SizeOfAppend ==
  ASSUME NEW s \in Seq(Record), NEW r \in Record
  PROVE  SizeOf(Append(s, r)) = SizeOf(s) + r.size
<1> DEFINE t == Append(s, r)
<1>1. /\ t \in Seq(Record) /\ Len(t) = Len(s) + 1 /\ t[Len(s) + 1] = r
      /\ \A i \in 1..Len(s) : s[i] = t[i]
  OBVIOUS
<1> HIDE DEF t
<1>2. PICK g : Sums(s, g) /\ SizeOf(s) = g[Len(s)]
  BY SizeIsSum
<1>3. PICK h : Sums(t, h) /\ SizeOf(t) = h[Len(t)]
  BY <1>1, SizeIsSum
<1>4. g[Len(s)] = h[Len(s)]
  BY <1>1, <1>2, <1>3, SumsAgree
<1>5. h[Len(s) + 1] = h[Len(s)] + t[Len(s) + 1].size
  BY <1>1, <1>3 DEF Sums
<1> QED
  BY <1>1, <1>2, <1>3, <1>4, <1>5 DEF t

(* The size of a single record is its own.                                 *)
LEMMA SizeOfOne == ASSUME NEW r \in Record PROVE SizeOf(<<r>>) = r.size
<1> DEFINE none == <<>>
<1>1. none \in Seq(Record) /\ Append(none, r) = <<r>>
  OBVIOUS
<1>2. SizeOf(none) = 0
  BY SizeOfNone
<1> HIDE DEF none
<1>3. SizeOf(Append(none, r)) = SizeOf(none) + r.size
  BY <1>1, SizeOfAppend
<1>4. r.size \in Nat
  BY RecordSize
<1> QED
  BY <1>1, <1>2, <1>3, <1>4

(* The size of two sequences together is the sum of their sizes.           *)
LEMMA SizeOfConcat ==
  ASSUME NEW s \in Seq(Record), NEW t \in Seq(Record)
  PROVE  SizeOf(s \o t) = SizeOf(s) + SizeOf(t)
<1> DEFINE First(n) == SubSeq(t, 1, n)
           T == {n \in Nat : n <= Len(t) =>
                   SizeOf(s \o First(n)) = SizeOf(s) + SizeOf(First(n))}
<1>1. 0 \in T
  <2>1. First(0) = <<>> /\ s \o First(0) = s
    OBVIOUS
  <2>2. SizeOf(First(0)) = 0
    BY <2>1, SizeOfNone, Zenon
  <2>3. SizeOf(s) \in Nat
    BY SizeType
  <2>4. SizeOf(s \o First(0)) = SizeOf(s) + SizeOf(First(0))
    <3>1. SizeOf(s \o First(0)) = SizeOf(s)
      BY <2>1, Zenon
    <3>2. SizeOf(s) = SizeOf(s) + 0
      BY <2>3
    <3> QED BY <2>2, <3>1, <3>2, Zenon
  <2> QED BY <2>4
<1>2. ASSUME NEW n \in T PROVE n + 1 \in T
  <2> SUFFICES ASSUME n + 1 <= Len(t)
               PROVE  SizeOf(s \o First(n + 1)) = SizeOf(s) + SizeOf(First(n + 1))
    OBVIOUS
  <2> DEFINE u == First(n)
             r == t[n + 1]
  <2>1. u \in Seq(Record) /\ r \in Record /\ First(n + 1) = Append(u, r)
    OBVIOUS
  <2>2. SizeOf(s \o u) = SizeOf(s) + SizeOf(u)
    OBVIOUS
  <2> HIDE DEF u, r, First
  <2>3. s \o Append(u, r) = Append(s \o u, r) /\ s \o u \in Seq(Record)
    BY <2>1
  <2>4. r.size \in Nat
    BY <2>1, RecordSize
  <2>5. SizeOf(Append(s \o u, r)) = SizeOf(s \o u) + r.size
    BY <2>1, <2>3, SizeOfAppend
  <2>6. SizeOf(Append(u, r)) = SizeOf(u) + r.size
    BY <2>1, SizeOfAppend
  <2>7. SizeOf(s) \in Nat /\ SizeOf(u) \in Nat
    BY <2>1, SizeType
  <2>8. SizeOf(Append(s \o u, r)) = SizeOf(s) + SizeOf(Append(u, r))
    BY <2>2, <2>4, <2>5, <2>6, <2>7
  <2> QED BY <2>1, <2>3, <2>8
<1>3. T = Nat
  <2> HIDE DEF T
  <2>1. T \in SUBSET Nat
    BY DEF T
  <2> QED BY <1>1, <1>2, <2>1, AllNaturals
<1>4. Len(t) \in T
  <2> HIDE DEF T
  <2> QED BY <1>3
<1>5. SizeOf(s \o First(Len(t))) = SizeOf(s) + SizeOf(First(Len(t)))
  BY <1>4
<1>6. First(Len(t)) = t
  OBVIOUS
<1> HIDE DEF First
<1> QED
  BY <1>5, <1>6

(* Only no records have no size.                                           *)
LEMMA SizePositive ==
  ASSUME NEW s \in Seq(Record), SizeOf(s) = 0 PROVE s = <<>>
<1> SUFFICES ASSUME s # <<>> PROVE FALSE
  OBVIOUS
<1> DEFINE u == SubSeq(s, 1, Len(s) - 1)
           r == s[Len(s)]
<1>1. u \in Seq(Record) /\ r \in Record /\ s = Append(u, r)
  OBVIOUS
<1>2. SizeOf(s) = SizeOf(u) + r.size
  <2> HIDE DEF u, r
  <2> QED BY <1>1, SizeOfAppend
<1>3. r.size \in Nat \ {0}
  <2> HIDE DEF r
  <2> QED BY <1>1, RecordSize
<1>4. SizeOf(u) \in Nat
  BY <1>1, SizeType
<1> HIDE DEF u, r
<1> QED
  BY <1>2, <1>3, <1>4

--------------------------------------------------------------------------------
(* What the sink has stored                                                *)

(* s may be all that a file holds.                                         *)
Fits(s) == SizeOf(s) <= MaxFileSize \/ Len(s) = 1

(* No step but the one that appends a record adds to a file.               *)
AddsNothing ==
  \A f \in Files : \E rest \in Seq(Record) : Stored(f) = Stored(f)' \o rest

(* What the place of the sink tells: only a failed sink has a bad stream,  *)
(* and until then it writes to the file that it has named last.            *)
Places ==
  /\ phase = "down" => buffer = <<>> /\ pending = <<>> /\ ~bad
  /\ bad => phase = "failed"
  /\ phase \in {"idle", "date", "size"} => out = File(currentDate, fileIndex)
  /\ phase # "down" => lives > 0
  /\ phase = "size" => batch # <<>>

FileInv == TypeOK /\ SizeBound /\ SizeTracked /\ Places

(* A sequence is its first n members and the others.                       *)
LEMMA SplitAt ==
  ASSUME NEW S, NEW s \in Seq(S), NEW n \in 0..Len(s)
  PROVE  /\ SubSeq(s, 1, n) \in Seq(S) /\ SubSeq(s, n + 1, Len(s)) \in Seq(S)
         /\ s = SubSeq(s, 1, n) \o SubSeq(s, n + 1, Len(s))
<1>1. /\ 1 \in 1..Len(s) + 1 /\ n \in 1 - 1..Len(s) /\ Len(s) \in n..Len(s)
      /\ n + 1 \in Nat /\ Len(s) \in Nat
  OBVIOUS
<1>2. SubSeq(s, 1, n) \o SubSeq(s, n + 1, Len(s)) = SubSeq(s, 1, Len(s))
  BY <1>1, ConcatAdjacentSubSeq
<1>3. SubSeq(s, 1, Len(s)) = s
  OBVIOUS
<1>4. SubSeq(s, 1, n) \in Seq(S)
  OBVIOUS
<1>5. SubSeq(s, n + 1, Len(s)) \in Seq(S)
  OBVIOUS
<1> QED
  BY <1>2, <1>3, <1>4, <1>5

(* What is stored in a file is a sequence of records.                      *)
LEMMA StoredType ==
  ASSUME TypeOK, NEW f \in Files PROVE Stored(f) \in Seq(Record)
BY DEF TypeOK, Stored

(* What begins like a file's records fits a file too.                      *)
LEMMA PartFits ==
  ASSUME NEW s \in Seq(Record), NEW t \in Seq(Record), Fits(s \o t)
  PROVE  Fits(s)
<1>1. /\ SizeOf(s) \in Nat /\ SizeOf(t) \in Nat
      /\ SizeOf(s \o t) = SizeOf(s) + SizeOf(t)
  BY SizeType, SizeOfConcat
<1>2. Len(s \o t) = Len(s) + Len(t) /\ Len(s) \in Nat /\ Len(t) \in Nat
  OBVIOUS
<1>3. Len(s) = 0 => s = <<>>
  OBVIOUS
<1>4. Len(s) = 0 => SizeOf(s) = 0
  BY <1>3, SizeOfNone, Zenon
<1>5. MaxFileSize \in Nat
  BY SinkAssumption
<1>6. CASE Len(s) = 0
  BY <1>4, <1>5, <1>6 DEF Fits
<1>7. CASE Len(s) # 0
  <2>1. SizeOf(s \o t) <= MaxFileSize \/ Len(s \o t) = 1
    BY DEF Fits
  <2>2. CASE SizeOf(s \o t) <= MaxFileSize
    <3>1. SizeOf(s) <= MaxFileSize
      BY <1>1, <1>5, <2>2
    <3> QED BY <3>1 DEF Fits
  <2>3. CASE Len(s \o t) = 1
    <3>1. Len(s) = 1
      BY <1>2, <1>7, <2>3
    <3> QED BY <3>1 DEF Fits
  <2> QED BY <2>1, <2>2, <2>3
<1> QED
  BY <1>6, <1>7

(* A step that adds nothing leaves every file within the bound.            *)
LEMMA StillBound ==
  ASSUME TypeOK, TypeOK', SizeBound, AddsNothing PROVE SizeBound'
<1> SUFFICES ASSUME NEW f \in Files PROVE Fits(Stored(f)')
  BY DEF SizeBound, Fits
<1>1. PICK rest \in Seq(Record) : Stored(f) = Stored(f)' \o rest
  BY DEF AddsNothing
<1>2. Stored(f)' \in Seq(Record)
  BY DEF TypeOK, Stored
<1>3. Fits(Stored(f) )
  BY DEF SizeBound, Fits
<1> QED
  BY <1>1, <1>2, <1>3, PartFits

(* A step after which every file will hold what it was to hold adds        *)
(* nothing.                                                                *)
LEMMA SameAddsNothing ==
  ASSUME TypeOK, \A f \in Files : Stored(f)' = Stored(f) PROVE AddsNothing
<1> SUFFICES ASSUME NEW f \in Files
             PROVE  \E rest \in Seq(Record) : Stored(f) = Stored(f)' \o rest
  BY DEF AddsNothing
<1>1. Stored(f) = Stored(f) \o <<>> /\ <<>> \in Seq(Record)
  BY StoredType
<1> QED
  BY <1>1

(* The records that a file is found with fit it, and their size fits       *)
(* size_t.                                                                 *)
LEMMA FitsWidth ==
  ASSUME NEW s \in Seq(Record), Fits(s) PROVE SizeOf(s) \in 0..Width - 1
<1>1. SizeOf(s) \in Nat
  BY SizeType
<1>2. CASE SizeOf(s) <= MaxFileSize
  BY <1>1, <1>2, SinkAssumption
<1>3. CASE Len(s) = 1
  <2> DEFINE r == s[1]
  <2>1. r \in Record /\ s = <<r>>
    BY <1>3
  <2> HIDE DEF r
  <2>2. r.size < Width /\ r.size \in Nat
    BY <2>1, SinkAssumption DEF Record
  <2>3. SizeOf(s) = r.size
    BY <2>1, <2>2, SizeOfOne
  <2> QED BY <2>2, <2>3, SinkAssumption
<1> QED
  BY <1>2, <1>3 DEF Fits

--------------------------------------------------------------------------------
(* The steps of the sink                                                   *)

(* The constructor finds what its predecessors have left in today's file.  *)
LEMMA CreateKeeps ==
  ASSUME TypeOK, SizeBound, SizeTracked, Places, Create
  PROVE  FileInv'
<1> DEFINE f == File(today, 0)
<1>1. f \in Files /\ f = [date |-> today, index |-> 0]
  BY SinkAssumption DEF File, Files, TypeOK, Dates
<1>2. \A g \in Files : Stored(g) = content[g] /\ Stored(g)' = content[g]
  <2>1. \A g \in Files : content[g] \in Seq(Record)
    BY DEF TypeOK
  <2> QED BY <2>1 DEF Create, Places, Stored
<1>3. SizeOf(content[f]) \in 0..Width - 1
  <2>1. content[f] \in Seq(Record) /\ Fits(content[f])
    BY <1>1, <1>2 DEF SizeBound, Fits, TypeOK
  <2> QED BY <2>1, FitsWidth
<1>4. TypeOK'
  <2>1. currentSize' \in 0..Width - 1
    BY <1>3 DEF Create, FileSize
  <2>2. out' \in Files /\ lives' \in 0..MaxLives
    BY <1>1, SinkAssumption DEF Create, TypeOK
  <2>3. 0 \in 0..MaxIndex /\ 0 \in 0..MaxRecords /\ 0 \in 0..0
    BY SinkAssumption
  <2>4. /\ buffer' \in Seq(Record) /\ pending' \in Seq(Record)
        /\ batch' \in Seq(Record)
    BY DEF Create, TypeOK
  <2>5. /\ today' \in Dates /\ currentDate' \in Dates
        /\ content' \in [Files -> Seq(Record)]
    BY DEF Create, TypeOK
  <2>6. /\ given' \in 0..MaxRecords /\ safe' \in 0..given' /\ wentBack' \in BOOLEAN
        /\ fileIndex' \in 0..MaxIndex /\ bad' \in BOOLEAN
        /\ phase' \in {"down", "idle", "date", "size", "failed"}
    BY <2>3 DEF Create
  <2> QED BY <2>1, <2>2, <2>4, <2>5, <2>6 DEF TypeOK
<1>5. SizeBound'
  BY <1>2, <1>4, SameAddsNothing, StillBound
<1>6. SizeTracked'
  BY <1>1, <1>2 DEF Create, FileSize, SizeTracked
<1>7. Places'
  BY DEF Create, Places, TypeOK
<1> QED
  BY <1>4, <1>5, <1>6, <1>7 DEF FileInv

(* writeBatch() takes its records.                                         *)
LEMMA WriteBatchKeeps ==
  ASSUME TypeOK, SizeBound, SizeTracked, Places, NEW n \in 1..MaxBatch, NEW sizes \in [1..n -> Sizes],
         WriteBatch(sizes)
  PROVE  FileInv'
<1>1. sizes \in Seq(Sizes) /\ Len(sizes) \in Nat
  BY SinkAssumption
<1>2. batch' \in Seq(Record)
  <2>1. \A i \in 1..Len(sizes) :
          [size |-> sizes[i], number |-> given + i, life |-> lives] \in Record
    BY <1>1, SinkAssumption DEF WriteBatch, Record, TypeOK, Places
  <2> QED BY <1>1, <2>1 DEF WriteBatch
<1>3. TypeOK'
  BY <1>1, <1>2, SinkAssumption DEF WriteBatch, TypeOK, streamVars, sinkVars
<1>4. \A f \in Files : Stored(f)' = Stored(f)
  BY DEF WriteBatch, Stored, streamVars, sinkVars
<1>5. SizeBound'
  BY <1>3, <1>4, SameAddsNothing, StillBound
<1>6. SizeTracked' /\ Places'
  BY <1>4 DEF WriteBatch, SizeTracked, Places, streamVars, sinkVars, TypeOK
<1> QED
  BY <1>3, <1>5, <1>6 DEF FileInv

(* A write that fails has written a part of pending_.                      *)
LEMMA WriteFailsKeeps ==
  ASSUME TypeOK, SizeBound, SizeTracked, Places, WriteFails,
         phase \in {"date", "size"}
  PROVE  FileInv'
<1>1. PICK n \in 0..Len(pending) : buffer' = buffer \o SubSeq(pending, 1, n)
  BY DEF WriteFails
<1>2. PICK some \in Seq(Record), rest \in Seq(Record) :
        pending = some \o rest /\ buffer' = buffer \o some
  BY <1>1, SplitAt DEF TypeOK
<1>3. TypeOK'
  BY <1>2 DEF WriteFails, Fail, TypeOK, sinkVars, historyVars
<1>4. AddsNothing
  <2> SUFFICES ASSUME NEW f \in Files
               PROVE  \E r \in Seq(Record) : Stored(f) = Stored(f)' \o r
    BY DEF AddsNothing
  <2>1. ~bad /\ out' = out /\ content' = content /\ bad'
    BY DEF WriteFails, Places
  <2>2. CASE f # out
    <3>1. Stored(f)' = Stored(f)
      BY <2>1, <2>2 DEF Stored
    <3>2. Stored(f) = Stored(f) \o <<>> /\ <<>> \in Seq(Record)
      BY StoredType
    <3> QED BY <3>1, <3>2
  <2>3. CASE f = out
    <3>1. PICK c \in Seq(Record), b \in Seq(Record) : content[f] = c /\ buffer = b
      BY DEF TypeOK
    <3>2. Stored(f) = (c \o b) \o (some \o rest)
      BY <1>2, <2>1, <2>3, <3>1 DEF Stored
    <3>3. Stored(f)' = c \o (b \o some)
      BY <1>2, <2>1, <2>3, <3>1 DEF Stored
    <3>4. (c \o b) \o (some \o rest) = (c \o (b \o some)) \o rest
      OBVIOUS
    <3> QED BY <3>2, <3>3, <3>4
  <2> QED BY <2>2, <2>3
<1>5. SizeBound'
  BY <1>3, <1>4, StillBound
<1>6. SizeTracked' /\ Places'
  BY DEF WriteFails, Fail, SizeTracked, Places, sinkVars, historyVars
<1> QED
  BY <1>3, <1>5, <1>6 DEF FileInv

(* Where the stream is good, an old file gets what it was to hold, and the *)
(* next file is taken with what it already holds.                          *)
LEMMA OpenKeepsStored ==
  ASSUME TypeOK, ~bad, ~bad', NEW f \in Files, f # out, OpenNewLogFile(f)
  PROVE  /\ \A g \in Files : Stored(g)' = Stored(g)
         /\ content' \in [Files -> Seq(Record)]
         /\ currentSize' = SizeOf(Stored(f)) /\ Stored(f) = content[f]
<1>1. content' = [content EXCEPT ![out] = @ \o (buffer \o pending)]
  BY DEF OpenNewLogFile, OldFileGets
<1>2. /\ content \in [Files -> Seq(Record)] /\ out \in Files
      /\ buffer \in Seq(Record) /\ pending \in Seq(Record)
  BY DEF TypeOK
<1>3. content' \in [Files -> Seq(Record)]
  BY <1>1, <1>2
<1>4. ASSUME NEW g \in Files PROVE Stored(g)' = Stored(g)
  <2>1. CASE g = out
    <3>1. PICK c \in Seq(Record), b \in Seq(Record), p \in Seq(Record) :
            content[g] = c /\ buffer = b /\ pending = p
      BY <1>2
    <3>2. Stored(g) = (c \o b) \o p
      BY <2>1, <3>1 DEF Stored
    <3>3. Stored(g)' = c \o (b \o p)
      BY <1>1, <1>2, <2>1, <3>1 DEF OpenNewLogFile, Stored
    <3>4. (c \o b) \o p = c \o (b \o p)
      OBVIOUS
    <3> QED BY <3>2, <3>3, <3>4
  <2>2. CASE g = f
    <3>1. Stored(g) = content[g] /\ content'[g] = content[g]
      BY <1>1, <1>2, <2>2 DEF Stored
    <3>2. Stored(g)' = content[g] \o <<>> \o <<>>
      BY <3>1, <2>2 DEF OpenNewLogFile, Stored
    <3>3. content[g] \in Seq(Record)
      BY <1>2
    <3>4. content[g] \o <<>> \o <<>> = content[g]
      BY <3>3
    <3> QED BY <3>1, <3>2, <3>4
  <2>3. CASE g # out /\ g # f
    BY <1>1, <1>2, <2>3 DEF OpenNewLogFile, Stored
  <2> QED BY <2>1, <2>2, <2>3
<1>5. Stored(f) = content[f] /\ currentSize' = SizeOf(content[f])
  BY DEF OpenNewLogFile, FileSize, Stored
<1> QED
  BY <1>3, <1>4, <1>5

(* What is written from pending_ to the stream is stored as before.        *)
LEMMA FlushPendingKeepsStored ==
  ASSUME TypeOK, ~bad, FlushPending, out' = out, content' = content
  PROVE  /\ \A g \in Files : Stored(g)' = Stored(g)
         /\ buffer' \in Seq(Record) /\ pending' \in Seq(Record)
<1>1. /\ content \in [Files -> Seq(Record)]
      /\ buffer \in Seq(Record) /\ pending \in Seq(Record)
  BY DEF TypeOK
<1>2. ASSUME NEW g \in Files PROVE Stored(g)' = Stored(g)
  <2>1. CASE g # out
    BY <2>1 DEF Stored
  <2>2. CASE g = out
    <3>1. PICK c \in Seq(Record), b \in Seq(Record), p \in Seq(Record) :
            content[g] = c /\ buffer = b /\ pending = p
      BY <1>1
    <3>2. Stored(g) = (c \o b) \o p
      BY <2>2, <3>1 DEF Stored
    <3>3. Stored(g)' = c \o (b \o p) \/ Stored(g)' = (c \o (b \o p)) \o <<>>
      BY <2>2, <3>1 DEF FlushPending, Stored
    <3>4. (c \o b) \o p = c \o (b \o p) /\ (c \o (b \o p)) \o <<>> = c \o (b \o p)
      OBVIOUS
    <3> QED BY <3>2, <3>3, <3>4
  <2> QED BY <2>1, <2>2
<1> QED
  BY <1>1, <1>2 DEF FlushPending

(* A change of the file, or a failed attempt                               *)
LEMMA RollKeeps ==
  ASSUME TypeOK, SizeBound, SizeTracked, Places, phase \in {"date", "size"},
         batch # <<>>, NEW date \in Dates, NEW index \in Nat,
         File(date, index) # out, Roll(date, index, "size")
  PROVE  FileInv'
<1> DEFINE f == File(date, index)
<1>1. f \in Files /\ index \in 0..MaxIndex
  BY SinkAssumption DEF Roll, File, Files
<1>2. ~bad /\ lives > 0
  BY DEF Places
<1>3. CASE OpenNewLogFile(f) /\ phase' = "size" /\ UNCHANGED bad
  <2>1. /\ \A g \in Files : Stored(g)' = Stored(g)
        /\ content' \in [Files -> Seq(Record)]
        /\ currentSize' = SizeOf(Stored(f)) /\ Stored(f) = content[f]
    BY <1>1, <1>2, <1>3, OpenKeepsStored
  <2>2. Stored(f) \in Seq(Record) /\ Fits(Stored(f))
    BY <1>1, StoredType DEF SizeBound, Fits
  <2>3. currentSize' \in 0..Width - 1
    BY <2>1, <2>2, FitsWidth
  <2>4. out' = f /\ buffer' = <<>> /\ pending' = <<>>
    BY <1>3 DEF OpenNewLogFile
  <2>5. TypeOK'
    BY <1>1, <1>3, <2>1, <2>3, <2>4 DEF Roll, TypeOK, historyVars
  <2>6. SizeBound'
    BY <2>1, <2>5, SameAddsNothing, StillBound
  <2>7. SizeTracked'
    BY <1>1, <2>1, <2>4 DEF SizeTracked
  <2>8. Places'
    BY <1>2, <1>3, <2>4 DEF Roll, Places, File, historyVars
  <2> QED BY <2>5, <2>6, <2>7, <2>8 DEF FileInv
<1>4. CASE /\ FlushPending /\ bad' \in BOOLEAN /\ Fail
           /\ UNCHANGED <<content, out, currentSize>>
  <2>1. /\ \A g \in Files : Stored(g)' = Stored(g)
        /\ buffer' \in Seq(Record) /\ pending' \in Seq(Record)
    BY <1>2, <1>4, FlushPendingKeepsStored
  <2>2. TypeOK'
    BY <1>1, <1>4, <2>1 DEF Roll, Fail, TypeOK, historyVars
  <2>3. SizeBound'
    BY <2>1, <2>2, SameAddsNothing, StillBound
  <2>4. SizeTracked'
    <3>1. currentSize = SizeOf(Stored(out)) /\ out \in Files
      BY <1>2 DEF SizeTracked, TypeOK
    <3> QED BY <1>4, <2>1, <3>1 DEF SizeTracked
  <2>5. Places'
    BY <1>2, <1>4 DEF Roll, Fail, Places, historyVars
  <2> QED BY <2>2, <2>3, <2>4, <2>5 DEF FileInv
<1> QED
  BY <1>3, <1>4 DEF Roll

(* The check for a new date                                                *)
LEMMA CheckDateKeeps ==
  ASSUME TypeOK, SizeBound, SizeTracked, Places, CheckDate
  PROVE  FileInv'
<1>1. CASE today = currentDate
  <2>1. phase' = "size" /\ batch # <<>> /\ phase = "date"
        /\ UNCHANGED <<today, streamVars, sinkVars, batch, historyVars>>
    BY <1>1 DEF CheckDate
  <2>2. TypeOK' /\ Places'
    BY <2>1 DEF TypeOK, Places, File, streamVars, sinkVars, historyVars
  <2>3. \A f \in Files : Stored(f)' = Stored(f)
    BY <2>1 DEF Stored, streamVars, sinkVars
  <2>4. SizeBound'
    BY <2>2, <2>3, SameAddsNothing, StillBound
  <2>5. SizeTracked'
    BY <2>1, <2>3 DEF SizeTracked, streamVars, sinkVars, TypeOK
  <2> QED BY <2>2, <2>4, <2>5 DEF FileInv
<1>2. CASE today # currentDate
  <2>1. phase = "date" /\ batch # <<>> /\ (WriteFails \/ Roll(today, 0, "size"))
    BY <1>2 DEF CheckDate
  <2>2. File(today, 0) # out /\ today \in Dates
    BY <1>2, <2>1 DEF Places, File, TypeOK
  <2> QED BY <2>1, <2>2, RollKeeps, WriteFailsKeeps
<1> QED
  BY <1>1, <1>2

(* A round of the loop that rolls for size                                 *)
LEMMA RollForSizeKeeps ==
  ASSUME TypeOK, SizeBound, SizeTracked, Places, RollForSize
  PROVE  FileInv'
<1>1. phase = "size" /\ batch # <<>> /\ currentDate \in Dates /\ fileIndex + 1 \in Nat
  BY SinkAssumption DEF RollForSize, Places, TypeOK
<1>2. File(currentDate, fileIndex + 1) # out
  BY <1>1, SinkAssumption DEF Places, File, TypeOK
<1> QED
  BY <1>1, <1>2, RollKeeps, WriteFailsKeeps DEF RollForSize

(* A record that is appended fits its file, in the unsigned arithmetic of  *)
(* the code too, or is alone in it.                                        *)
LEMMA AppendFits ==
  ASSUME NEW s \in Seq(Record), currentSize = SizeOf(s), NEW r \in Record,
         ~NeedsRoll(r.size)
  PROVE  Fits(Append(s, r)) /\ SizeOf(Append(s, r)) = currentSize + r.size
<1>1. /\ SizeOf(s) \in Nat /\ r.size \in Nat /\ MaxFileSize \in Nat
      /\ Width \in Nat /\ MaxFileSize < Width
  BY SizeType, RecordSize, SinkAssumption
<1>2. SizeOf(Append(s, r)) = SizeOf(s) + r.size
  BY SizeOfAppend
<1>3. CASE SizeOf(s) = 0
  <2>1. s = <<>>
    BY <1>3, SizePositive
  <2>2. Len(Append(s, r)) = 1
    BY <2>1
  <2> QED BY <1>2, <2>2 DEF Fits
<1>4. CASE SizeOf(s) # 0
  <2>1. /\ r.size <= MaxFileSize
        /\ SizeOf(s) <= (MaxFileSize - r.size) % Width
    BY <1>1, <1>4 DEF NeedsRoll, Minus
  <2>2. (MaxFileSize - r.size) % Width = MaxFileSize - r.size
    BY <1>1, <2>1
  <2>3. SizeOf(s) + r.size <= MaxFileSize
    BY <1>1, <2>1, <2>2
  <2> QED BY <1>2, <2>3 DEF Fits
<1> QED
  BY <1>3, <1>4

(* The step that adds to a file                                            *)
LEMMA AppendRecordKeeps ==
  ASSUME TypeOK, SizeBound, SizeTracked, Places, AppendRecord
  PROVE  FileInv'
<1> DEFINE r == Head(batch)
<1>1. r \in Record /\ Tail(batch) \in Seq(Record) /\ ~bad
  BY DEF AppendRecord, Places, TypeOK
<1>2. /\ currentSize = SizeOf(Stored(out)) /\ out \in Files
      /\ Stored(out) \in Seq(Record)
  BY <1>1, StoredType DEF AppendRecord, SizeTracked, TypeOK
<1>3. /\ pending' = Append(pending, r) /\ currentSize' = currentSize + r.size
      /\ ~NeedsRoll(r.size) /\ batch' = Tail(batch) /\ phase' = "date"
      /\ UNCHANGED <<today, content, out, buffer, bad, currentDate, fileIndex>>
      /\ UNCHANGED <<given, lives, safe, wentBack>>
  BY DEF AppendRecord, streamVars, historyVars
<1> HIDE DEF r
<1>4. Stored(out)' = Append(Stored(out), r)
  <2>1. PICK c \in Seq(Record), b \in Seq(Record), p \in Seq(Record) :
          content[out] = c /\ buffer = b /\ pending = p
    BY DEF TypeOK
  <2>2. Stored(out) = (c \o b) \o p
    BY <1>1, <2>1 DEF Stored
  <2>3. Stored(out)' = (c \o b) \o Append(p, r)
    BY <1>1, <1>3, <2>1 DEF Stored
  <2>4. (c \o b) \o Append(p, r) = Append((c \o b) \o p, r)
    BY <1>1
  <2> QED BY <2>2, <2>3, <2>4
<1>5. Fits(Stored(out)') /\ SizeOf(Stored(out)') = currentSize'
  BY <1>1, <1>2, <1>3, <1>4, AppendFits
<1>6. Stored(out)' \in Seq(Record)
  BY <1>1, <1>2, <1>4
<1>7. currentSize' \in 0..Width - 1
  BY <1>5, <1>6, FitsWidth
<1>8. TypeOK'
  BY <1>1, <1>3, <1>7 DEF TypeOK
<1>9. SizeBound'
  <2> SUFFICES ASSUME NEW f \in Files PROVE Fits(Stored(f)')
    BY DEF SizeBound, Fits
  <2>1. CASE f = out
    BY <1>3, <1>5, <2>1
  <2>2. CASE f # out
    <3>1. Stored(f)' = Stored(f)
      BY <1>3, <2>2 DEF Stored
    <3> QED BY <3>1 DEF SizeBound, Fits
  <2> QED BY <2>1, <2>2
<1>10. SizeTracked' /\ Places'
  BY <1>3, <1>5, SinkAssumption DEF AppendRecord, SizeTracked, Places, File
<1> QED
  BY <1>8, <1>9, <1>10 DEF FileInv

(* The end of writeBatch()                                                 *)
LEMMA EndBatchKeeps ==
  ASSUME TypeOK, SizeBound, SizeTracked, Places, EndBatch
  PROVE  FileInv'
<1>1. CASE WriteFails
  BY <1>1, WriteFailsKeeps DEF EndBatch
<1>2. CASE /\ FlushPending /\ phase' = "idle"
           /\ UNCHANGED <<today, content, out, bad, currentDate, currentSize,
                          fileIndex, batch, historyVars>>
  <2>1. phase = "date" /\ ~bad
    BY DEF EndBatch, Places
  <2>2. /\ \A g \in Files : Stored(g)' = Stored(g)
        /\ buffer' \in Seq(Record) /\ pending' \in Seq(Record)
    BY <1>2, <2>1, FlushPendingKeepsStored
  <2>3. TypeOK'
    BY <1>2, <2>2 DEF TypeOK, historyVars
  <2>4. SizeBound'
    BY <2>2, <2>3, SameAddsNothing, StillBound
  <2>5. SizeTracked' /\ Places'
    BY <1>2, <2>1, <2>2 DEF SizeTracked, Places, File, TypeOK, historyVars
  <2> QED BY <2>3, <2>4, <2>5 DEF FileInv
<1> QED
  BY <1>1, <1>2 DEF EndBatch

(* flush() that returns                                                    *)
LEMMA FlushKeeps ==
  ASSUME TypeOK, SizeBound, SizeTracked, Places, Flush
  PROVE  FileInv'
<1>1. /\ phase \in {"idle", "failed"} /\ ~bad /\ ~bad'
      /\ content' = [content EXCEPT ![out] = @ \o buffer] /\ buffer' = <<>>
      /\ UNCHANGED <<today, out, pending, currentDate, currentSize, fileIndex, batch,
                     phase, given, lives, wentBack>>
      /\ safe' \in {given, safe}
  BY DEF Flush, sinkVars
<1>2. ASSUME NEW f \in Files PROVE Stored(f)' = Stored(f)
  <2>1. CASE f # out
    BY <1>1, <2>1 DEF Stored, TypeOK
  <2>2. CASE f = out
    <3>1. PICK c \in Seq(Record), b \in Seq(Record), p \in Seq(Record) :
            content[f] = c /\ buffer = b /\ pending = p
      BY DEF TypeOK
    <3>2. Stored(f) = (c \o b) \o p
      BY <1>1, <2>2, <3>1 DEF Stored
    <3>3. Stored(f)' = ((c \o b) \o <<>>) \o p
      BY <1>1, <2>2, <3>1 DEF Stored, TypeOK
    <3>4. (c \o b) \o <<>> = c \o b
      OBVIOUS
    <3> QED BY <3>2, <3>3, <3>4
  <2> QED BY <2>1, <2>2
<1>3. TypeOK'
  <2>1. content' \in [Files -> Seq(Record)]
    BY <1>1 DEF TypeOK
  <2>2. given' \in 0..MaxRecords /\ safe' \in 0..given'
    BY <1>1 DEF TypeOK
  <2>3. bad' \in BOOLEAN
    BY DEF Flush, TypeOK
  <2> QED BY <1>1, <2>1, <2>2, <2>3 DEF TypeOK
<1>4. SizeBound'
  BY <1>2, <1>3, SameAddsNothing, StillBound
<1>5. SizeTracked' /\ Places'
  BY <1>1, <1>2 DEF SizeTracked, Places, File, TypeOK
<1> QED
  BY <1>3, <1>4, <1>5 DEF FileInv

(* flush() that throws                                                     *)
LEMMA FlushFailsKeeps ==
  ASSUME TypeOK, SizeBound, SizeTracked, Places, FlushFails
  PROVE  FileInv'
<1>1. /\ ~bad /\ bad' = TRUE /\ phase' = "failed" /\ phase \in {"idle", "failed"}
      /\ UNCHANGED <<today, content, out, buffer, pending, currentDate, currentSize,
                     fileIndex, batch, given, lives, safe, wentBack>>
  BY DEF FlushFails, Fail, sinkVars, historyVars
<1>2. TypeOK'
  <2>1. bad' \in BOOLEAN /\ phase' \in {"down", "idle", "date", "size", "failed"}
    BY <1>1
  <2> QED BY <1>1, <2>1 DEF TypeOK
<1>3. AddsNothing
  <2> SUFFICES ASSUME NEW f \in Files
               PROVE  \E rest \in Seq(Record) : Stored(f) = Stored(f)' \o rest
    BY DEF AddsNothing
  <2>1. CASE f # out
    <3>1. Stored(f)' = Stored(f)
      BY <1>1, <2>1 DEF Stored
    <3>2. Stored(f) = Stored(f) \o <<>> /\ <<>> \in Seq(Record)
      BY StoredType
    <3> QED BY <3>1, <3>2
  <2>2. CASE f = out
    <3>1. Stored(f) = Stored(f)' \o pending
      BY <1>1, <2>2 DEF Stored
    <3> QED BY <3>1 DEF TypeOK
  <2> QED BY <2>1, <2>2
<1>4. SizeBound'
  BY <1>2, <1>3, StillBound
<1>5. SizeTracked' /\ Places'
  BY <1>1 DEF SizeTracked, Places
<1> QED
  BY <1>2, <1>4, <1>5 DEF FileInv

(* When the sink is gone, by close() or with its process, the last file    *)
(* holds what reached it: some of the buffer or none.                      *)
LEMMA EndAddsNothing ==
  ASSUME TypeOK, NEW some \in Seq(Record), NEW others \in Seq(Record),
         buffer = some \o others, out' = out,
         content' = [content EXCEPT ![out] = @ \o some],
         ~bad', buffer' = <<>>, pending' = <<>>
  PROVE  AddsNothing
<1> SUFFICES ASSUME NEW f \in Files
             PROVE  \E rest \in Seq(Record) : Stored(f) = Stored(f)' \o rest
  BY DEF AddsNothing
<1>1. CASE f # out
  <2>1. Stored(f)' = Stored(f)
    BY <1>1 DEF Stored, TypeOK
  <2>2. Stored(f) = Stored(f) \o <<>> /\ <<>> \in Seq(Record)
    BY StoredType
  <2> QED BY <2>1, <2>2
<1>2. CASE f = out
  <2>1. PICK c \in Seq(Record), p \in Seq(Record) : content[f] = c /\ pending = p
    BY DEF TypeOK
  <2>2. Stored(f) = c \o (some \o others) \/ Stored(f) = (c \o (some \o others)) \o p
    BY <1>2, <2>1 DEF Stored
  <2>3. Stored(f)' = ((c \o some) \o <<>>) \o <<>>
    BY <1>2, <2>1 DEF Stored, TypeOK
  <2>4. ((c \o some) \o <<>>) \o <<>> = c \o some
    OBVIOUS
  <2>5. c \o (some \o others) = (c \o some) \o others
    OBVIOUS
  <2>6. (c \o (some \o others)) \o p = (c \o some) \o (others \o p)
    <3>1. PICK cs \in Seq(Record) : cs = c \o some
      <4>1. c \o some \in Seq(Record)
        OBVIOUS
      <4> QED BY <4>1, Zenon
    <3>2. (cs \o others) \o p = cs \o (others \o p)
      BY ConcatAssociative
    <3> QED BY <2>5, <3>1, <3>2, Zenon
  <2>7. others \o p \in Seq(Record)
    OBVIOUS
  <2>8. CASE Stored(f) = c \o (some \o others)
    BY <2>3, <2>4, <2>5, <2>8
  <2>9. CASE Stored(f) = (c \o (some \o others)) \o p
    BY <2>3, <2>4, <2>6, <2>7, <2>9
  <2> QED BY <2>2, <2>8, <2>9
<1> QED
  BY <1>1, <1>2

(* close()                                                                 *)
LEMMA CloseKeeps ==
  ASSUME TypeOK, SizeBound, SizeTracked, Places, Close
  PROVE  FileInv'
<1>1. PICK n \in 0..Len(buffer) :
        content' = [content EXCEPT ![out] = @ \o SubSeq(buffer, 1, n)]
  BY DEF Close
<1>2. PICK some \in Seq(Record), others \in Seq(Record) :
        buffer = some \o others /\ some = SubSeq(buffer, 1, n)
  BY <1>1, SplitAt DEF TypeOK
<1>3. content' = [content EXCEPT ![out] = @ \o some]
  BY <1>1, <1>2
<1>4. /\ phase' = "down" /\ batch' = <<>> /\ buffer' = <<>> /\ pending' = <<>>
      /\ bad' = FALSE
      /\ UNCHANGED <<today, out, currentDate, currentSize, fileIndex, given, lives,
                     safe, wentBack>>
  BY DEF Close, historyVars
<1>5. TypeOK'
  <2>1. bad' \in BOOLEAN /\ phase' \in {"down", "idle", "date", "size", "failed"}
    BY <1>4
  <2>2. content' \in [Files -> Seq(Record)]
    BY <1>3 DEF TypeOK
  <2> QED BY <1>4, <2>1, <2>2 DEF TypeOK
<1>6. SizeBound'
  BY <1>2, <1>3, <1>4, <1>5, EndAddsNothing, StillBound
<1>7. SizeTracked' /\ Places'
  BY <1>4 DEF SizeTracked, Places
<1> QED
  BY <1>5, <1>6, <1>7 DEF FileInv

(* A crash                                                                 *)
LEMMA CrashKeeps ==
  ASSUME TypeOK, SizeBound, SizeTracked, Places, Crash
  PROVE  FileInv'
<1>1. /\ phase' = "down" /\ batch' = <<>> /\ buffer' = <<>> /\ pending' = <<>>
      /\ bad' = FALSE
      /\ UNCHANGED <<today, content, out, currentDate, currentSize, fileIndex, given,
                     lives, safe, wentBack>>
  BY DEF Crash, historyVars
<1>2. TypeOK'
  <2>1. bad' \in BOOLEAN /\ phase' \in {"down", "idle", "date", "size", "failed"}
    BY <1>1
  <2> QED BY <1>1, <2>1 DEF TypeOK
<1>3. AddsNothing
  <2>1. content[out] \in Seq(Record) /\ buffer \in Seq(Record) /\ <<>> \in Seq(Record)
    BY DEF TypeOK
  <2>2. buffer = <<>> \o buffer /\ content[out] = content[out] \o <<>>
    BY <2>1
  <2>3. content' = [content EXCEPT ![out] = @ \o <<>>]
    BY <1>1, <2>2 DEF TypeOK
  <2> QED BY <1>1, <2>1, <2>2, <2>3, EndAddsNothing
<1>4. SizeBound'
  BY <1>2, <1>3, StillBound
<1>5. SizeTracked' /\ Places'
  BY <1>1 DEF SizeTracked, Places
<1> QED
  BY <1>2, <1>4, <1>5 DEF FileInv

(* The stream empties a part of its buffer.                                *)
LEMMA SpillKeeps ==
  ASSUME TypeOK, SizeBound, SizeTracked, Places, Spill
  PROVE  FileInv'
<1>1. PICK h \in Record, t \in Seq(Record) :
        buffer = <<h>> \o t /\ Head(buffer) = h /\ Tail(buffer) = t
  <2>1. buffer \in Seq(Record) /\ buffer # <<>>
    BY DEF Spill, TypeOK
  <2>2. /\ Head(buffer) \in Record /\ Tail(buffer) \in Seq(Record)
        /\ buffer = <<Head(buffer)>> \o Tail(buffer)
    BY <2>1, HeadTailProperties
  <2> QED BY <2>2
<1>2. /\ content' = [content EXCEPT ![out] = Append(@, h)] /\ buffer' = t
      /\ phase # "down"
      /\ UNCHANGED <<today, out, bad, pending, currentDate, currentSize, fileIndex,
                     batch, phase, given, lives, safe, wentBack>>
  BY <1>1 DEF Spill, sinkVars, historyVars
<1>3. ASSUME NEW f \in Files PROVE Stored(f)' = Stored(f)
  <2>1. CASE f # out
    BY <1>2, <2>1 DEF Stored, TypeOK
  <2>2. CASE f = out
    <3>1. PICK c \in Seq(Record), p \in Seq(Record) : content[f] = c /\ pending = p
      BY DEF TypeOK
    <3>2. Stored(f) = IF bad THEN c \o (<<h>> \o t) ELSE (c \o (<<h>> \o t)) \o p
      BY <1>1, <2>2, <3>1 DEF Stored
    <3>3. Stored(f)' = IF bad THEN Append(c, h) \o t ELSE (Append(c, h) \o t) \o p
      BY <1>2, <2>2, <3>1 DEF Stored, TypeOK
    <3>4. Append(c, h) \o t = c \o (<<h>> \o t)
      OBVIOUS
    <3> QED BY <3>2, <3>3, <3>4
  <2> QED BY <2>1, <2>2
<1>4. TypeOK'
  BY <1>2 DEF TypeOK
<1>5. SizeBound'
  BY <1>3, <1>4, SameAddsNothing, StillBound
<1>6. SizeTracked' /\ Places'
  BY <1>2, <1>3 DEF SizeTracked, Places, File, TypeOK
<1> QED
  BY <1>4, <1>5, <1>6 DEF FileInv

(* A step that leaves all but the date and what is said of it alone        *)
LEMMA NewDateKeeps ==
  ASSUME TypeOK, SizeBound, SizeTracked, Places, NewDate \/ UNCHANGED vars
  PROVE  FileInv'
<1>1. /\ UNCHANGED <<content, out, buffer, bad, pending, currentDate, currentSize,
                     fileIndex, batch, phase, given, lives, safe>>
      /\ today' \in Dates /\ wentBack' \in BOOLEAN
  BY DEF NewDate, vars, streamVars, sinkVars, historyVars, TypeOK
<1>2. TypeOK' /\ \A f \in Files : Stored(f)' = Stored(f)
  BY <1>1 DEF TypeOK, Stored
<1>3. SizeBound'
  BY <1>2, SameAddsNothing, StillBound
<1>4. SizeTracked' /\ Places'
  BY <1>1, <1>2 DEF SizeTracked, Places, File, TypeOK
<1> QED
  BY <1>2, <1>3, <1>4 DEF FileInv

--------------------------------------------------------------------------------
(* The theorems                                                            *)

(* There is nothing in the files before the first sink.                    *)
LEMMA InitFiles == Init => FileInv
<1> SUFFICES ASSUME Init PROVE FileInv
  OBVIOUS
<1>1. 0 \in Dates /\ 0 \in 0..MaxIndex /\ File(0, 0) \in Files
  BY SinkAssumption DEF Dates, Files, File
<1>2. /\ 0 \in 0..Width - 1 /\ 0 \in 0..MaxRecords /\ 0 \in 0..MaxLives
      /\ 0 \in 0..0 /\ 0 <= MaxFileSize
  BY SinkAssumption
<1>3. TypeOK
  <2>1. content \in [Files -> Seq(Record)]
    BY DEF Init
  <2>2. bad \in BOOLEAN /\ wentBack \in BOOLEAN
        /\ phase \in {"down", "idle", "date", "size", "failed"}
    BY DEF Init
  <2> QED BY <1>1, <1>2, <2>1, <2>2 DEF Init, TypeOK
<1>4. SizeBound
  <2>1. \A f \in Files : Stored(f) = <<>>
    BY DEF Init, Stored
  <2>2. SizeOf(<<>>) <= MaxFileSize
    <3> DEFINE none == <<>>
    <3>1. SizeOf(none) = 0
      BY SizeOfNone
    <3> HIDE DEF none
    <3>2. SizeOf(none) <= MaxFileSize
      BY <1>2, <3>1
    <3> QED BY <3>2 DEF none
  <2> QED BY <2>1, <2>2, Zenon DEF SizeBound
<1>5. SizeTracked /\ Places
  BY DEF Init, SizeTracked, Places
<1> QED
  BY <1>3, <1>4, <1>5 DEF FileInv

(* The steps keep it.                                                      *)
LEMMA NextFiles == FileInv /\ [Next]_vars => FileInv'
<1> SUFFICES ASSUME TypeOK, SizeBound, SizeTracked, Places, [Next]_vars PROVE FileInv'
  BY DEF FileInv
<1>1. CASE \E n \in 1..MaxBatch : \E sizes \in [1..n -> Sizes] : WriteBatch(sizes)
  BY <1>1, WriteBatchKeeps
<1>2. CASE Create \/ WriteStep
  BY <1>2, CreateKeeps, CheckDateKeeps, RollForSizeKeeps, AppendRecordKeeps,
     EndBatchKeeps DEF WriteStep
<1>3. CASE Flush \/ FlushFails \/ Close
  BY <1>3, FlushKeeps, FlushFailsKeeps, CloseKeeps
<1>4. CASE Spill \/ NewDate \/ Crash \/ UNCHANGED vars
  BY <1>4, SpillKeeps, NewDateKeeps, CrashKeeps
<1> QED
  BY <1>1, <1>2, <1>3, <1>4 DEF Next

(* At every moment the sink's book agrees with its files.                  *)
LEMMA FilesCorrect == Spec => []FileInv
BY InitFiles, NextFiles, PTL DEF Spec

(* Every variable keeps to the type of its header: currentSize_ never      *)
(* leaves the range of size_t, whatever sinks before it have left.         *)
THEOREM FileTypeCorrect == Spec => []TypeOK
<1>1. FileInv => TypeOK
  BY DEF FileInv
<1> QED
  BY <1>1, FilesCorrect, PTL

(* No file exceeds maxFileSize_ over any number of restarts, crashes,      *)
(* failures and date changes, in any order, except with a single record    *)
(* too large for any file.                                                 *)
THEOREM BoundCorrect == Spec => []SizeBound
<1>1. FileInv => SizeBound
  BY DEF FileInv
<1> QED
  BY <1>1, FilesCorrect, PTL

(* currentSize_ is the size that the file will have, after a failed        *)
(* attempt to roll too.                                                    *)
THEOREM TrackedCorrect == Spec => []SizeTracked
<1>1. FileInv => SizeTracked
  BY DEF FileInv
<1> QED
  BY <1>1, FilesCorrect, PTL

--------------------------------------------------------------------------------
(* The contract of LogSink: what is read                                   *)

LineType == [file : Files, row : Nat, number : Nat]

(* A line of the sink is a record of it in a file.                         *)
IsLine(p, f, i) ==
  /\ content[f][i].life = lives
  /\ p = [file |-> f, row |-> i, number |-> content[f][i].number]

(* The lines are the sink's records in the files.                          *)
LEMMA LinesAre ==
  \A p : p \in Lines <=> \E f \in Files : \E i \in DOMAIN content[f] : IsLine(p, f, i)
BY DEF Lines, IsLine

(* The same of the next state                                              *)
LEMMA LinesAreNext ==
  \A p : p \in Lines' <=> \E f \in Files : \E i \in DOMAIN content'[f] : IsLine(p, f, i)'
<1>1. (\A p : p \in Lines <=>
               \E f \in Files : \E i \in DOMAIN content[f] : IsLine(p, f, i))'
  BY LinesAre, PTL
<1> QED
  BY <1>1

(* The lines are the first k records that the sink was given, each once,   *)
(* and the names of their files tell the order while the clock is right.   *)
Saved(k) ==
  /\ \A p \in Lines : p.number \in 1..k
  /\ \A n \in 1..k : \E p \in Lines : p.number = n
  /\ \A p, q \in Lines : p.number = q.number => p = q
  /\ ~wentBack => \A p, q \in Lines : p.number < q.number => Above(p, q)

(* A line has a file, a row and a number.                                  *)
LEMMA LineTypes == TypeOK => Lines \subseteq LineType
<1> SUFFICES ASSUME TypeOK, NEW p \in Lines PROVE p \in LineType
  OBVIOUS
<1>1. PICK f \in Files : \E i \in DOMAIN content[f] : IsLine(p, f, i)
  BY LinesAre
<1>2. content[f] \in Seq(Record)
  BY DEF TypeOK
<1>3. PICK i \in DOMAIN content[f] : IsLine(p, f, i)
  BY <1>1
<1>4. i \in Nat /\ content[f][i] \in Record
  BY <1>2, <1>3
<1>5. content[f][i].number \in Nat
  BY <1>4, SinkAssumption DEF Record
<1> QED
  BY <1>3, <1>4, <1>5 DEF IsLine, LineType

(* Of two lines in different places only one is above the other.           *)
LEMMA AboveOrders ==
  ASSUME NEW p \in LineType, NEW q \in LineType
  PROVE  /\ Above(p, q) => ~Above(q, p) /\ p # q
         /\ ~Above(p, p)
<1>1. /\ p.file.date \in Nat /\ p.file.index \in Nat /\ p.row \in Nat
      /\ q.file.date \in Nat /\ q.file.index \in Nat /\ q.row \in Nat
  BY SinkAssumption DEF LineType, Files, Dates
<1>2. Above(p, q) => ~Above(q, p)
  BY <1>1 DEF Above
<1>3. ~Above(p, p)
  BY <1>1 DEF Above
<1> QED
  BY <1>2, <1>3

(* Then the n-th that is read is the n-th that was given.                  *)
LEMMA ReadSaved ==
  \A k \in Nat : TypeOK /\ Saved(k) => Output = Sink!UpTo(k)
<1> SUFFICES ASSUME NEW k \in Nat, TypeOK, Saved(k) PROVE Output = Sink!UpTo(k)
  OBVIOUS
<1>1. Lines \subseteq LineType /\ wentBack \in BOOLEAN
  BY LineTypes DEF TypeOK
<1>2. ASSUME NEW p \in Lines, NEW q \in Lines PROVE Before(q, p) <=> q.number < p.number
  <2>1. p \in LineType /\ q \in LineType /\ p.number \in Nat /\ q.number \in Nat
    BY <1>1 DEF LineType
  <2>2. Saved(k)
    OBVIOUS
  <2>3. p.number = q.number => p = q
    BY <2>2 DEF Saved
  <2>4. ~Above(p, p) /\ (Above(p, q) => ~Above(q, p))
    BY <2>1, AboveOrders
  <2>5. CASE wentBack
    BY <2>1, <2>3, <2>4, <2>5 DEF Before
  <2>6. CASE ~wentBack
    <3>1. /\ p.number < q.number => Above(p, q)
          /\ q.number < p.number => Above(q, p)
      BY <2>2, <2>6 DEF Saved
    <3>2. Before(q, p) <=> Above(q, p)
      BY <2>6 DEF Before
    <3> QED
      BY <2>1, <2>3, <2>4, <3>1, <3>2
  <2> QED
    BY <2>5, <2>6
<1> DEFINE at == [n \in 1..k |-> CHOOSE p \in Lines : p.number = n]
<1>3. \A n \in 1..k : at[n] \in Lines /\ at[n].number = n
  BY DEF Saved
<1> HIDE DEF at
<1>4. \A p \in Lines : p.number \in 1..k /\ at[p.number] = p
  BY <1>3 DEF Saved
<1>5. ASSUME NEW m \in 0..k
      PROVE  /\ IsFiniteSet({q \in Lines : q.number <= m})
             /\ Cardinality({q \in Lines : q.number <= m}) = m
  <2> DEFINE T == {q \in Lines : q.number <= m}
             f == [n \in 1..m |-> at[n]]
  <2>1. \A n \in 1..m : n \in 1..k /\ n <= m
    OBVIOUS
  <2>2. f \in [1..m -> T]
    BY <1>3, <2>1
  <2>3. \A a, b \in 1..m : f[a] = f[b] => a = b
    <3>1. \A a \in 1..m : f[a].number = a
      BY <1>3, <2>1
    <3> QED
      BY <3>1
  <2>4. \A q \in T : \E n \in 1..m : f[n] = q
    <3> SUFFICES ASSUME NEW q \in T PROVE \E n \in 1..m : f[n] = q
      OBVIOUS
    <3>1. q.number \in 1..m /\ at[q.number] = q
      BY <1>4
    <3> QED
      BY <3>1
  <2> HIDE DEF T, f
  <2>5. f \in Bijection(1..m, T)
    BY <2>2, <2>3, <2>4, Fun_IsBij
  <2>6. ExistsBijection(1..m, T)
    BY <2>5 DEF ExistsBijection
  <2>7. IsFiniteSet(1..m) /\ Cardinality(1..m) = m
    <3>1. 1 \in Int /\ m \in Int /\ (IF 1 > m THEN 0 ELSE m - 1 + 1) = m
      OBVIOUS
    <3> QED
      BY <3>1, FS_Interval
  <2> QED
    BY <2>6, <2>7, FS_Bijection DEF T
<1>6. Cardinality(Lines) = k
  <2>1. {q \in Lines : q.number <= k} = Lines
    BY <1>4
  <2> QED
    BY <1>5, <2>1
<1>7. ASSUME NEW p \in Lines
      PROVE  Cardinality({q \in Lines : Before(q, p)}) = p.number - 1
  <2>1. p.number - 1 \in 0..k
    BY <1>4
  <2>2. {q \in Lines : Before(q, p)} = {q \in Lines : q.number <= p.number - 1}
    <3>1. ASSUME NEW q \in Lines PROVE Before(q, p) <=> q.number <= p.number - 1
      <4>1. p.number \in Nat /\ q.number \in Nat
        BY <1>4
      <4> QED
        BY <1>2, <4>1
    <3> QED
      BY <3>1
  <2> QED
    BY <1>5, <2>1, <2>2
<1> DEFINE place(n) ==
      CHOOSE p \in Lines : Cardinality({q \in Lines : Before(q, p)}) = n - 1
<1>8. ASSUME NEW n \in 1..k PROVE place(n).number = n
  <2>1. \A p \in Lines : p.number \in Nat
    BY <1>4
  <2>2. at[n] \in Lines /\ at[n].number = n
    BY <1>3
  <2>3. Cardinality({q \in Lines : Before(q, at[n])}) = n - 1
    BY <1>7, <2>2
  <2>4. place(n) \in Lines /\ Cardinality({q \in Lines : Before(q, place(n))}) = n - 1
    BY <2>2, <2>3
  <2> HIDE DEF place
  <2> QED
    BY <1>7, <2>1, <2>4
<1>9. Output = [n \in 1..k |-> place(n).number]
  BY <1>6 DEF Output
<1> HIDE DEF place
<1> QED
  BY <1>8, <1>9 DEF Sink!UpTo

(* The same of the next state                                              *)
LEMMA ReadSavedNext ==
  \A k \in Nat : TypeOK' /\ Saved(k)' => Output' = Sink!UpTo(k)
<1>1. (\A k \in Nat : TypeOK /\ Saved(k) => Output = Sink!UpTo(k))'
  BY ReadSaved, PTL
<1> QED
  BY <1>1 DEF Sink!UpTo

--------------------------------------------------------------------------------
(* The contract of LogSink: what is saved                                  *)

(* s holds the records of the present sink that follow the first k.        *)
Run(s, k) == \A i \in 1..Len(s) : s[i].life = lives /\ s[i].number = k + i

(* The name of f is not after that of g.                                   *)
NotAfter(f, g) == f.date < g.date \/ (f.date = g.date /\ f.index <= g.index)

(* The sink has not written beyond f.                                      *)
Until(f) == \A p \in Lines : NotAfter(p.file, f)

(* What goes on comes in one piece after the other.                        *)
LEMMA RunParts ==
  ASSUME NEW s \in Seq(Record), NEW t \in Seq(Record), NEW k \in Nat
  PROVE  Run(s \o t, k) <=> Run(s, k) /\ Run(t, k + Len(s))
<1> DEFINE st == s \o t
<1>1. /\ Len(st) = Len(s) + Len(t) /\ Len(s) \in Nat /\ Len(t) \in Nat
      /\ \A i \in 1..Len(s) + Len(t) : st[i] = IF i <= Len(s) THEN s[i] ELSE t[i - Len(s)]
  BY ConcatProperties
<1> HIDE DEF st
<1>2. ASSUME Run(st, k) PROVE Run(s, k) /\ Run(t, k + Len(s))
  <2>1. ASSUME NEW i \in 1..Len(s) PROVE s[i].life = lives /\ s[i].number = k + i
    <3>1. i \in 1..Len(st) /\ st[i] = s[i]
      BY <1>1
    <3> QED
      BY <1>2, <3>1 DEF Run
  <2>2. ASSUME NEW i \in 1..Len(t)
        PROVE  t[i].life = lives /\ t[i].number = (k + Len(s)) + i
    <3>1. /\ Len(s) + i \in 1..Len(st) /\ ~(Len(s) + i <= Len(s))
          /\ (Len(s) + i) - Len(s) = i /\ k + (Len(s) + i) = (k + Len(s)) + i
      BY <1>1
    <3>2. st[Len(s) + i] = t[i]
      BY <1>1, <3>1
    <3> QED
      BY <1>2, <3>1, <3>2 DEF Run
  <2> QED
    BY <2>1, <2>2 DEF Run
<1>3. ASSUME Run(s, k), Run(t, k + Len(s)) PROVE Run(st, k)
  <2>1. ASSUME NEW i \in 1..Len(st) PROVE st[i].life = lives /\ st[i].number = k + i
    <3>1. CASE i <= Len(s)
      <4>1. i \in 1..Len(s) /\ st[i] = s[i]
        BY <1>1, <3>1
      <4> QED
        BY <1>3, <4>1 DEF Run
    <3>2. CASE ~(i <= Len(s))
      <4>1. /\ i - Len(s) \in 1..Len(t) /\ st[i] = t[i - Len(s)]
            /\ (k + Len(s)) + (i - Len(s)) = k + i
        BY <1>1, <3>2
      <4> QED
        BY <1>3, <4>1 DEF Run
    <3> QED
      BY <3>1, <3>2
  <2> QED
    BY <2>1 DEF Run
<1> QED
  BY <1>2, <1>3 DEF st

(* A line that is there stays where it is.                                 *)
LEMMA OldLine ==
  ASSUME TypeOK, NEW more \in Seq(Record), NEW f \in Files, NEW i \in DOMAIN content[f],
         content' = [content EXCEPT ![out] = content[out] \o more]
  PROVE  i \in DOMAIN content'[f] /\ content'[f][i] = content[f][i]
<1>1. content \in [Files -> Seq(Record)] /\ content[f] \in Seq(Record) /\ out \in Files
  BY DEF TypeOK
<1>2. CASE f # out
  BY <1>1, <1>2
<1>3. CASE f = out
  <2>1. content'[f] = content[f] \o more
    BY <1>1, <1>3
  <2>2. i \in 1..Len(content[f]) /\ Len(content[f]) \in Nat /\ Len(more) \in Nat
    BY <1>1
  <2> DEFINE c == content[f] \o more
  <2>3. /\ c \in Seq(Record) /\ Len(c) = Len(content[f]) + Len(more)
        /\ \A j \in 1..Len(content[f]) + Len(more) :
             c[j] = IF j <= Len(content[f]) THEN content[f][j] ELSE more[j - Len(content[f])]
    BY <1>1, ConcatProperties
  <2> HIDE DEF c
  <2>4. i \in DOMAIN c /\ c[i] = content[f][i]
    BY <2>2, <2>3
  <2> QED
    BY <2>1, <2>4 DEF c
<1> QED
  BY <1>2, <1>3

(* What more of what the sink was given reaches its present file comes     *)
(* below what it has written.                                              *)
LEMMA Grows ==
  ASSUME TypeOK, NEW k \in Nat, Saved(k), ~wentBack => Until(out),
         NEW more \in Seq(Record), Run(more, k), UNCHANGED <<lives, wentBack>>,
         content' = [content EXCEPT ![out] = content[out] \o more]
  PROVE  Saved(k + Len(more))' /\ (~wentBack => \A p \in Lines' : NotAfter(p.file, out))
<1> DEFINE n == Len(content[out])
           m == Len(more)
           New(i) == [file |-> out, row |-> n + i, number |-> k + i]
<1>1. /\ content \in [Files -> Seq(Record)] /\ out \in Files /\ content[out] \in Seq(Record)
      /\ n \in Nat /\ m \in Nat /\ Lines \subseteq LineType /\ wentBack \in BOOLEAN
  BY LineTypes DEF TypeOK
<1>2. /\ \A f \in Files : f # out => content'[f] = content[f]
      /\ content'[out] = content[out] \o more
  BY <1>1
<1>3. /\ content'[out] \in Seq(Record) /\ Len(content'[out]) = n + m
      /\ \A i \in 1..n + m :
           content'[out][i] = IF i <= n THEN content[out][i] ELSE more[i - n]
  BY <1>1, <1>2, ConcatProperties
<1> HIDE DEF n, m
<1>4. ASSUME NEW p \in Lines PROVE p \in Lines' /\ (p.file = out => p.row <= n)
  <2>1. PICK f \in Files : \E i \in DOMAIN content[f] : IsLine(p, f, i)
    BY LinesAre
  <2>2. PICK i \in DOMAIN content[f] : IsLine(p, f, i)
    BY <2>1
  <2>3. i \in DOMAIN content'[f] /\ content'[f][i] = content[f][i]
    BY OldLine
  <2>4. IsLine(p, f, i)'
    BY <2>2, <2>3 DEF IsLine
  <2>5. p.file = out => p.row <= n
    BY <1>1, <2>2 DEF IsLine, n
  <2> QED
    BY <2>3, <2>4, <2>5, LinesAreNext
<1>5. ASSUME NEW i \in 1..m PROVE New(i) \in Lines'
  <2>1. n + i \in 1..n + m /\ ~(n + i <= n) /\ (n + i) - n = i
    BY <1>1
  <2>2. content'[out][n + i] = more[i] /\ n + i \in DOMAIN content'[out]
    BY <1>3, <2>1
  <2>3. more[i].life = lives /\ more[i].number = k + i
    BY DEF Run, m
  <2>4. PICK e, f, j : e = New(i) /\ f = out /\ j = n + i
    OBVIOUS
  <2>5. IsLine(e, f, j)'
    BY <2>2, <2>3, <2>4 DEF IsLine
  <2>6. f \in Files /\ j \in DOMAIN content'[f]
    BY <1>1, <2>2, <2>4
  <2>7. e \in Lines'
    BY <2>5, <2>6, LinesAreNext
  <2> QED
    BY <2>4, <2>7
<1>6. ASSUME NEW p \in Lines' PROVE p \in Lines \/ \E i \in 1..m : p = New(i)
  <2>1. PICK f \in Files : \E i \in DOMAIN content'[f] : IsLine(p, f, i)'
    BY LinesAreNext
  <2>2. PICK i \in DOMAIN content'[f] : IsLine(p, f, i)'
    BY <2>1
  <2>3. ASSUME i \in DOMAIN content[f] PROVE p \in Lines
    <3>1. content'[f][i] = content[f][i]
      BY <2>3, OldLine
    <3>2. IsLine(p, f, i)
      BY <2>2, <3>1 DEF IsLine
    <3> QED
      BY <2>3, <3>2, LinesAre
  <2>4. CASE i \notin DOMAIN content[f]
    <3>1. f = out
      BY <1>2, <2>4
    <3>2. i \in 1..n + m /\ ~(i <= n) /\ i \in Nat
      BY <1>1, <1>3, <2>4, <3>1 DEF n
    <3>3. i - n \in 1..m /\ n + (i - n) = i
      BY <1>1, <3>2
    <3>4. content'[f][i] = more[i - n]
      BY <1>3, <3>1, <3>2
    <3>5. more[i - n].number = k + (i - n)
      BY <3>3 DEF Run, m
    <3>6. p = New(i - n)
      BY <2>2, <3>1, <3>3, <3>4, <3>5 DEF IsLine
    <3> QED
      BY <3>3, <3>6
  <2> QED
    BY <2>3, <2>4
<1>7. \A i \in 1..m : New(i).number = k + i /\ New(i).file = out /\ New(i).row = n + i
  OBVIOUS
<1>8. \A i, j \in 1..m : k + i = k + j => New(i) = New(j)
  OBVIOUS
<1> HIDE DEF New
<1>9. /\ \A p \in Lines : p.number \in 1..k
      /\ \A j \in 1..k : \E p \in Lines : p.number = j
      /\ \A p, q \in Lines : p.number = q.number => p = q
      /\ ~wentBack => \A p, q \in Lines : p.number < q.number => Above(p, q)
  BY DEF Saved
<1>10. \A p \in Lines' : p.number \in 1..k + m
  <2> SUFFICES ASSUME NEW p \in Lines' PROVE p.number \in 1..k + m
    OBVIOUS
  <2>1. p \in Lines => p.number \in 1..k
    BY <1>9
  <2>2. ASSUME NEW i \in 1..m, p = New(i) PROVE p.number = k + i
    BY <1>7, <2>2
  <2> QED
    BY <1>1, <1>6, <2>1, <2>2
<1>11. \A j \in 1..k + m : \E p \in Lines' : p.number = j
  <2> SUFFICES ASSUME NEW j \in 1..k + m PROVE \E p \in Lines' : p.number = j
    OBVIOUS
  <2>1. CASE j <= k
    <3>1. j \in 1..k
      BY <1>1, <2>1
    <3> QED
      BY <1>4, <1>9, <3>1
  <2>2. CASE j > k
    <3>1. j - k \in 1..m /\ k + (j - k) = j
      BY <1>1, <2>2
    <3> QED
      BY <1>5, <1>7, <3>1
  <2> QED
    BY <1>1, <2>1, <2>2
<1>12. ASSUME NEW p \in Lines, NEW i \in 1..m PROVE p.number < New(i).number
  BY <1>7, <1>9
<1>13. \A p, q \in Lines' : p.number = q.number => p = q
  <2> SUFFICES ASSUME NEW p \in Lines', NEW q \in Lines', p.number = q.number PROVE p = q
    OBVIOUS
  <2>1. ASSUME NEW x \in Lines, NEW i \in 1..m PROVE x.number # New(i).number
    <3>1. x.number \in Nat /\ New(i).number \in Nat
      BY <1>7, <1>9
    <3> QED
      BY <1>12, <3>1
  <2>2. CASE p \in Lines /\ q \in Lines
    BY <1>9, <2>2
  <2>3. CASE p \in Lines /\ q \notin Lines
    BY <1>6, <2>1, <2>3
  <2>4. CASE p \notin Lines /\ q \in Lines
    BY <1>6, <2>1, <2>4
  <2>5. CASE p \notin Lines /\ q \notin Lines
    <3>1. PICK i \in 1..m, j \in 1..m : p = New(i) /\ q = New(j)
      BY <1>6, <2>5
    <3> QED
      BY <1>7, <1>8, <3>1
  <2> QED
    BY <2>2, <2>3, <2>4, <2>5
<1>14. ASSUME ~wentBack
       PROVE  /\ \A p \in Lines' : NotAfter(p.file, out)
              /\ \A p, q \in Lines' : p.number < q.number => Above(p, q)
  <2>1. /\ out.date \in Nat /\ out.index \in Nat
        /\ \A f \in Files : f.date \in Nat /\ f.index \in Nat
        /\ \A f \in Files : f.date = out.date /\ f.index = out.index => f = out
    <3>1. \A f \in Files : f.date \in Nat /\ f.index \in Nat
      BY SinkAssumption DEF Files, Dates
    <3>2. \A f, g \in Files : f.date = g.date /\ f.index = g.index => f = g
      BY DEF Files
    <3> QED
      BY <1>1, <3>1, <3>2
  <2>2. \A p \in Lines' : NotAfter(p.file, out)
    <3>1. NotAfter(out, out)
      BY <2>1 DEF NotAfter
    <3>2. \A p \in Lines : NotAfter(p.file, out)
      BY <1>14 DEF Until
    <3> QED
      BY <1>6, <1>7, <3>1, <3>2
  <2>3. ASSUME NEW p \in Lines, NEW i \in 1..m PROVE Above(p, New(i))
    <3>1. /\ NotAfter(p.file, out) /\ (p.file = out => p.row <= n)
          /\ p.file \in Files /\ p.row \in Nat
      BY <1>1, <1>4, <1>14 DEF Until, LineType
    <3>2. p.file = out => p.row < n + i
      BY <1>1, <3>1
    <3>3. New(i).file = out /\ New(i).row = n + i
      BY <1>7
    <3> QED
      BY <2>1, <3>1, <3>2, <3>3 DEF Above, NotAfter
  <2>4. ASSUME NEW p \in Lines', NEW q \in Lines', p.number < q.number PROVE Above(p, q)
    <3>1. CASE p \in Lines /\ q \in Lines
      BY <1>9, <1>14, <2>4, <3>1
    <3>2. CASE p \in Lines /\ q \notin Lines
      BY <1>6, <2>3, <3>2
    <3>3. CASE p \notin Lines /\ q \in Lines
      <4>1. PICK i \in 1..m : p = New(i)
        BY <1>6, <3>3
      <4>2. p.number \in Nat /\ q.number \in Nat /\ q.number < p.number
        BY <1>7, <1>9, <1>12, <3>3, <4>1
      <4> QED
        BY <2>4, <4>2
    <3>4. CASE p \notin Lines /\ q \notin Lines
      <4>1. PICK i \in 1..m, j \in 1..m : p = New(i) /\ q = New(j)
        BY <1>6, <3>4
      <4>2. i < j
        BY <1>7, <2>4, <4>1
      <4> QED
        BY <1>1, <1>7, <2>1, <4>1, <4>2 DEF Above
    <3> QED
      BY <3>1, <3>2, <3>3, <3>4
  <2> QED
    BY <2>2, <2>4
<1>15. Saved(k + m)'
  BY <1>10, <1>11, <1>13, <1>14 DEF Saved
<1> QED
  BY <1>14, <1>15 DEF m

(* What the stream and the sink hold is what was given and is not saved,   *)
(* as long as the sink has not failed; then, an initial part of it.        *)
Waiting(k) ==
  /\ Run(buffer, k) /\ k + Len(buffer) <= given
  /\ phase \in {"idle", "date", "size"} =>
       /\ Run(pending, k + Len(buffer))
       /\ Run(batch, k + Len(buffer) + Len(pending))
       /\ k + Len(buffer) + Len(pending) + Len(batch) = given
       /\ ~wentBack => currentDate <= today
  /\ phase = "idle" => pending = <<>> /\ batch = <<>>
  /\ phase = "down" => batch = <<>>

Written(k) == Saved(k) /\ (~wentBack => Until(out)) /\ Waiting(k)

(* No record is of a sink that is yet to come.                             *)
NoneLater == \A f \in Files : \A i \in DOMAIN content[f] : content[f][i].life <= lives

ContractInv == NoneLater /\ \E k \in Nat : Written(k)

(* A step of the sink is a step of LogSink's or shows nothing.             *)
SinkStep == [Sink!Next]_(Sink!vars)

(* When j records are saved after k, the output goes on to j.              *)
LEMMA OutputGrows ==
  ASSUME TypeOK, TypeOK', NEW k \in Nat, NEW j \in Nat, Saved(k), Saved(j)',
         k <= j, j <= given
  PROVE  Sink!Extends(j)
<1>1. Output = Sink!UpTo(k) /\ Output' = Sink!UpTo(j)
  BY ReadSaved, ReadSavedNext
<1>2. Len(Sink!UpTo(k)) = k
  BY DEF Sink!UpTo
<1> QED
  BY <1>1, <1>2 DEF Sink!Extends

(* A step that saves more of what was given                                *)
LEMMA SavesMore ==
  ASSUME TypeOK, TypeOK', NoneLater, NEW k \in Nat, Saved(k), ~wentBack => Until(out),
         NEW more \in Seq(Record), Run(more, k), UNCHANGED <<lives, wentBack>>,
         content' = [content EXCEPT ![out] = content[out] \o more],
         k + Len(more) <= given
  PROVE  /\ Saved(k + Len(more))' /\ (~wentBack => \A p \in Lines' : NotAfter(p.file, out))
         /\ NoneLater'
         /\ Sink!Extends(k + Len(more))
<1>1. Len(more) \in Nat
  OBVIOUS
<1>2. Saved(k + Len(more))' /\ (~wentBack => \A p \in Lines' : NotAfter(p.file, out))
  BY Grows
<1>3. Sink!Extends(k + Len(more))
  BY <1>1, <1>2, OutputGrows
<1>4. NoneLater'
  <2> SUFFICES ASSUME NEW f \in Files, NEW i \in DOMAIN content'[f]
               PROVE  content'[f][i].life <= lives
    BY DEF NoneLater
  <2>1. CASE i \in DOMAIN content[f]
    BY <2>1, OldLine DEF NoneLater
  <2>2. CASE i \notin DOMAIN content[f]
    <3>1. /\ content \in [Files -> Seq(Record)] /\ content[f] \in Seq(Record)
          /\ out \in Files /\ lives \in Nat
      BY SinkAssumption DEF TypeOK
    <3>2. f = out
      BY <2>2, <3>1
    <3> DEFINE c == content[f] \o more
    <3>3. content'[f] = c
      BY <3>1, <3>2
    <3>4. /\ c \in Seq(Record) /\ Len(c) = Len(content[f]) + Len(more)
          /\ \A l \in 1..Len(content[f]) + Len(more) :
               c[l] = IF l <= Len(content[f]) THEN content[f][l] ELSE more[l - Len(content[f])]
      BY <3>1, ConcatProperties
    <3> HIDE DEF c
    <3>5. i - Len(content[f]) \in 1..Len(more) /\ c[i] = more[i - Len(content[f])]
      BY <1>1, <2>2, <3>1, <3>3, <3>4
    <3> QED
      BY <3>1, <3>3, <3>5 DEF Run
  <2> QED
    BY <2>1, <2>2
<1> QED
  BY <1>2, <1>3, <1>4

(* A step that leaves the files alone                                      *)
LEMMA SavesNothing ==
  ASSUME TypeOK, TypeOK', NoneLater, NEW k \in Nat, Saved(k), k <= given,
         UNCHANGED <<content, lives>>, wentBack => wentBack'
  PROVE  Saved(k)' /\ Lines' = Lines /\ NoneLater' /\ Output' = Output /\ Sink!Extends(k)
<1>1. Lines' = Lines
  BY DEF Lines
<1>2. Saved(k)'
  BY <1>1 DEF Saved
<1>3. NoneLater'
  BY DEF NoneLater
<1>4. Output = Sink!UpTo(k) /\ Output' = Sink!UpTo(k)
  BY <1>2, ReadSaved, ReadSavedNext
<1>5. Sink!Extends(k)
  BY <1>2, OutputGrows
<1> QED
  BY <1>1, <1>2, <1>3, <1>4, <1>5

--------------------------------------------------------------------------------
(* The contract of LogSink: the steps                                      *)

(* What every step starts from and comes to                                *)
StepFrom == FileInv /\ TypeOK' /\ NoneLater
StepKeeps == SinkStep /\ ContractInv'

(* The constructor: none of the lines there are is the new sink's.         *)
LEMMA CreateContract ==
  ASSUME StepFrom, NEW k \in Nat, Written(k), Create
  PROVE  StepKeeps
<1>1. TypeOK /\ TypeOK' /\ NoneLater /\ lives \in Nat
  BY SinkAssumption DEF StepFrom, FileInv, TypeOK
<1>2. /\ phase = "down" /\ phase' = "idle" /\ lives' = lives + 1 /\ given' = 0 /\ safe' = 0
      /\ content' = content /\ pending' = <<>> /\ buffer' = <<>> /\ batch' = batch
      /\ out' = File(today, 0) /\ currentDate' = today /\ today' = today
  BY DEF Create
<1>3. batch = <<>>
  BY <1>2 DEF Written, Waiting
<1>4. \A f \in Files : \A i \in DOMAIN content[f] :
        content[f][i].life \in Nat /\ content[f][i].life <= lives
  <2> SUFFICES ASSUME NEW f \in Files, NEW i \in DOMAIN content[f]
               PROVE  content[f][i].life \in Nat
    BY <1>1 DEF NoneLater
  <2>1. content[f] \in Seq(Record)
    BY <1>1 DEF TypeOK
  <2>2. content[f][i] \in Record
    BY <2>1
  <2> QED
    BY <2>2, SinkAssumption DEF Record
<1>5. \A f \in Files : \A i \in DOMAIN content[f] :
        content[f][i].life # lives + 1 /\ content[f][i].life <= lives + 1
  BY <1>1, <1>4
<1>6. Lines' = {}
  <2> SUFFICES ASSUME NEW p \in Lines' PROVE FALSE
    OBVIOUS
  <2>1. PICK f \in Files : \E i \in DOMAIN content'[f] : IsLine(p, f, i)'
    BY LinesAreNext
  <2>2. PICK i \in DOMAIN content'[f] : IsLine(p, f, i)'
    BY <2>1
  <2> QED
    BY <1>2, <1>5, <2>2 DEF IsLine
<1>7. Saved(0)' /\ Until(out)' /\ NoneLater'
  BY <1>2, <1>5, <1>6 DEF Saved, Until, NoneLater
<1>8. Waiting(0)'
  BY <1>1, <1>2, <1>3, SinkAssumption DEF Waiting, Run, TypeOK, Dates
<1>9. Output' = <<>>
  BY <1>1, <1>7, ReadSavedNext DEF Sink!UpTo
<1>10. Sink!Create
  BY <1>2, <1>9 DEF Sink!Create
<1> QED
  BY <1>7, <1>8, <1>10 DEF StepKeeps, SinkStep, Sink!Next, ContractInv, Written

(* writeBatch() takes the records that come next.                          *)
LEMMA WriteBatchContract ==
  ASSUME StepFrom, NEW k \in Nat, Written(k), NEW n \in 1..MaxBatch,
         NEW sizes \in [1..n -> Sizes], WriteBatch(sizes)
  PROVE  StepKeeps
<1>1. /\ TypeOK /\ TypeOK' /\ NoneLater /\ Saved(k) /\ Waiting(k) /\ given \in Nat
      /\ buffer \in Seq(Record)
  BY SinkAssumption DEF StepFrom, FileInv, Written, TypeOK
<1>2. sizes \in Seq(Sizes) /\ Len(sizes) \in Nat
  BY SinkAssumption
<1>3. /\ phase = "idle" /\ phase' = "date" /\ given' = given + Len(sizes)
      /\ batch' = [i \in 1..Len(sizes) |->
                    [size |-> sizes[i], number |-> given + i, life |-> lives]]
      /\ UNCHANGED <<today, content, out, buffer, pending, currentDate, lives, safe, wentBack>>
  BY DEF WriteBatch, streamVars, sinkVars
<1>4. pending = <<>> /\ k + Len(buffer) = given /\ (~wentBack => currentDate <= today)
      /\ Run(buffer, k) /\ k + Len(buffer) <= given
  <2>1. pending = <<>> /\ batch = <<>> /\ Len(pending) = 0 /\ Len(batch) = 0
    BY <1>1, <1>3 DEF Waiting
  <2>2. Len(buffer) \in Nat
    BY <1>1
  <2> QED
    BY <1>1, <1>3, <2>1, <2>2 DEF Waiting
<1>5. Saved(k)' /\ Lines' = Lines /\ NoneLater' /\ Output' = Output
  <2>1. k <= given
    BY <1>1, <1>4
  <2> QED
    BY <1>1, <1>3, <2>1, SavesNothing
<1>6. Len(batch') = Len(sizes)
  BY <1>2, <1>3
<1>7. ASSUME NEW i \in 1..Len(batch')
      PROVE  batch'[i].life = lives' /\ batch'[i].number = given + i
  <2> DEFINE r == [size |-> sizes[i], number |-> given + i, life |-> lives]
  <2>1. r.life = lives /\ r.number = given + i
    OBVIOUS
  <2>2. batch'[i] = r
    BY <1>3, <1>6
  <2> HIDE DEF r
  <2> QED
    BY <1>3, <2>1, <2>2
<1>8. Waiting(k)'
  <2>1. k + Len(buffer') + Len(pending') = given /\ k + Len(buffer') = given
    BY <1>1, <1>3, <1>4
  <2>2. Run(batch, k + Len(buffer) + Len(pending))'
    BY <1>7, <2>1 DEF Run
  <2>3. Run(buffer, k)'
    BY <1>3, <1>4 DEF Run
  <2>4. Run(pending, k + Len(buffer))'
    <3>1. Len(pending') = 0
      BY <1>3, <1>4
    <3> QED
      BY <3>1 DEF Run
  <2>5. k + Len(buffer') + Len(pending') + Len(batch') = given' /\ k + Len(buffer') <= given'
    <3>1. given' = given + Len(batch') /\ Len(batch') \in Nat
      BY <1>2, <1>3, <1>6
    <3> QED
      BY <1>1, <2>1, <3>1
  <2>6. phase' = "date" /\ (~wentBack' => currentDate' <= today')
    BY <1>3, <1>4
  <2> QED
    BY <2>2, <2>3, <2>4, <2>5, <2>6 DEF Waiting
<1>9. Sink!WriteBatch
  BY <1>1, <1>2, <1>3, <1>5 DEF Sink!WriteBatch
<1>10. (~wentBack => Until(out))'
  BY <1>3, <1>5 DEF Written, Until
<1> QED
  BY <1>5, <1>8, <1>9, <1>10 DEF StepKeeps, SinkStep, Sink!Next, ContractInv, Written

(* The first records of a run are one.                                     *)
LEMMA RunBegins ==
  ASSUME NEW s \in Seq(Record), NEW k \in Nat, Run(s, k), NEW n \in 0..Len(s)
  PROVE  /\ SubSeq(s, 1, n) \in Seq(Record) /\ Len(SubSeq(s, 1, n)) = n
         /\ Run(SubSeq(s, 1, n), k)
<1> DEFINE t == SubSeq(s, 1, n)
<1>1. t \in Seq(Record) /\ Len(t) = n /\ \A i \in 1..n : t[i] = s[i] /\ i \in 1..Len(s)
  OBVIOUS
<1> HIDE DEF t
<1>2. Run(t, k)
  BY <1>1 DEF Run
<1> QED
  BY <1>1, <1>2 DEF t

(* A step that leaves the files alone and keeps what waits                 *)
LEMMA StaysSaved ==
  ASSUME StepFrom, NEW k \in Nat, Written(k), Waiting(k)',
         UNCHANGED <<content, lives, out>>, wentBack => wentBack'
  PROVE  ContractInv' /\ Output' = Output /\ Sink!Extends(k) /\ k \in 0..given
<1>1. TypeOK /\ TypeOK' /\ NoneLater /\ Saved(k) /\ k \in 0..given
  <2>1. TypeOK /\ buffer \in Seq(Record) /\ given \in Nat /\ k + Len(buffer) <= given
    BY SinkAssumption DEF StepFrom, FileInv, TypeOK, Written, Waiting
  <2>2. Len(buffer) \in Nat
    BY <2>1
  <2> QED
    BY <2>1, <2>2 DEF StepFrom, Written
<1>2. /\ Saved(k)' /\ Lines' = Lines /\ NoneLater' /\ Output' = Output
      /\ Sink!Extends(k)
  BY <1>1, SavesNothing
<1>3. (~wentBack => Until(out))'
  BY <1>2 DEF Written, Until
<1> QED
  BY <1>1, <1>2, <1>3 DEF ContractInv, Written

(* A step that adds what comes next to the file                            *)
LEMMA GoesOn ==
  ASSUME StepFrom, NEW k \in Nat, Written(k), NEW more \in Seq(Record), Run(more, k),
         k + Len(more) <= given, UNCHANGED <<lives, wentBack>>,
         content' = [content EXCEPT ![out] = content[out] \o more],
         ~wentBack => NotAfter(out, out'), Waiting(k + Len(more))'
  PROVE  /\ ContractInv' /\ Sink!Extends(k + Len(more)) /\ k + Len(more) \in 0..given
<1>1. TypeOK /\ TypeOK' /\ NoneLater /\ Saved(k) /\ (~wentBack => Until(out))
      /\ k + Len(more) \in Nat /\ given \in Nat
  <2>1. Len(more) \in Nat
    OBVIOUS
  <2> QED
    BY <2>1, SinkAssumption DEF StepFrom, FileInv, TypeOK, Written
<1>2. /\ Saved(k + Len(more))' /\ NoneLater' /\ Sink!Extends(k + Len(more))
      /\ ~wentBack => \A p \in Lines' : NotAfter(p.file, out)
  BY <1>1, SavesMore
<1>3. Lines' \subseteq LineType
  <2>1. (TypeOK => Lines \subseteq LineType)'
    BY LineTypes, PTL
  <2> QED
    BY <1>1, <2>1 DEF LineType, Files, Dates
<1>4. ASSUME ~wentBack, NEW p \in Lines' PROVE NotAfter(p.file, out')
  <2>1. NotAfter(p.file, out) /\ NotAfter(out, out')
    BY <1>2, <1>4
  <2>2. p.file \in Files /\ out \in Files /\ out' \in Files
    BY <1>1, <1>3 DEF LineType, TypeOK, Files, Dates
  <2>3. \A f \in Files : f.date \in Nat /\ f.index \in Nat
    BY SinkAssumption DEF Files, Dates
  <2> QED
    BY <2>1, <2>2, <2>3 DEF NotAfter
<1>5. (~wentBack => Until(out))'
  BY <1>4 DEF Until
<1>6. Written(k + Len(more))'
  BY <1>2, <1>5 DEF Written
<1> QED
  BY <1>1, <1>2, <1>6 DEF ContractInv

(* While records are written, the stream, pending_ and the batch hold all  *)
(* that was given and is not saved.                                        *)
LEMMA InHand ==
  ASSUME StepFrom, NEW k \in Nat, Written(k), phase \in {"idle", "date", "size"}
  PROVE  /\ buffer \in Seq(Record) /\ pending \in Seq(Record) /\ batch \in Seq(Record)
         /\ Len(buffer) \in Nat /\ Len(pending) \in Nat /\ Len(batch) \in Nat
         /\ Run(buffer, k) /\ Run(pending, k + Len(buffer))
         /\ Run(batch, k + Len(buffer) + Len(pending))
         /\ given \in Nat /\ k + Len(buffer) + Len(pending) + Len(batch) = given
         /\ ~wentBack => currentDate <= today
<1>1. buffer \in Seq(Record) /\ pending \in Seq(Record) /\ batch \in Seq(Record)
      /\ given \in Nat
  BY SinkAssumption DEF StepFrom, FileInv, TypeOK
<1> QED
  BY <1>1 DEF Written, Waiting

(* A write that fails leaves a part of pending_ in the stream.             *)
LEMMA WriteFailsContract ==
  ASSUME StepFrom, NEW k \in Nat, Written(k), phase \in {"date", "size"}, WriteFails
  PROVE  StepKeeps
<1>1. PICK n \in 0..Len(pending) : buffer' = buffer \o SubSeq(pending, 1, n)
  BY DEF WriteFails
<1>2. /\ phase' = "failed"
      /\ UNCHANGED <<content, out, given, lives, safe, wentBack>>
  BY DEF WriteFails, Fail, historyVars
<1> DEFINE part == SubSeq(pending, 1, n)
<1>3. /\ buffer \in Seq(Record) /\ pending \in Seq(Record)
      /\ Len(buffer) \in Nat /\ Len(pending) \in Nat /\ Len(batch) \in Nat
      /\ Run(buffer, k) /\ Run(pending, k + Len(buffer))
      /\ given \in Nat /\ k + Len(buffer) + Len(pending) + Len(batch) = given
  BY InHand
<1>4. part \in Seq(Record) /\ Len(part) = n /\ Run(part, k + Len(buffer))
  <2>1. k + Len(buffer) \in Nat
    BY <1>3
  <2> QED
    BY <1>3, <2>1, RunBegins
<1> HIDE DEF part
<1>5. PICK b : b = buffer \o part
  OBVIOUS
<1>6. Run(b, k) /\ Len(b) = Len(buffer) + n /\ buffer' = b
  <2>1. Run(b, k)
    BY <1>3, <1>4, <1>5, RunParts
  <2>2. Len(b) = Len(buffer) + n
    BY <1>3, <1>4, <1>5, ConcatProperties
  <2> QED
    BY <1>1, <1>5, <2>1, <2>2 DEF part
<1>7. Run(buffer, k)' /\ k + Len(buffer') <= given'
  <2>1. Run(buffer, k)'
    BY <1>2, <1>6 DEF Run
  <2> QED
    BY <1>2, <1>3, <1>6, <2>1
<1>8. Waiting(k)'
  BY <1>2, <1>7 DEF Waiting
<1>9. ContractInv' /\ Sink!Extends(k) /\ k \in 0..given
  BY <1>2, <1>8, StaysSaved
<1>10. Sink!Fail
  BY <1>2, <1>9 DEF Sink!Fail
<1> QED
  BY <1>9, <1>10 DEF StepKeeps, SinkStep, Sink!Next

(* A roll that succeeds saves what was on its way to the old file.         *)
LEMMA OpenContract ==
  ASSUME StepFrom, NEW k \in Nat, Written(k), phase \in {"date", "size"},
         NEW f \in Files, OpenNewLogFile(f), phase' = "size", currentDate' = f.date,
         UNCHANGED <<today, batch, historyVars>>,
         ~wentBack => NotAfter(out, f) /\ f.date <= today
  PROVE  StepKeeps
<1>1. /\ content' = [content EXCEPT ![out] = content[out] \o (buffer \o pending)]
      /\ buffer' = <<>> /\ pending' = <<>> /\ out' = f
      /\ UNCHANGED <<given, lives, safe, wentBack, batch, today>>
  BY DEF OpenNewLogFile, OldFileGets, historyVars
<1> PICK more : more = buffer \o pending
  OBVIOUS
<1>2. /\ buffer \in Seq(Record) /\ pending \in Seq(Record) /\ batch \in Seq(Record)
      /\ Len(buffer) \in Nat /\ Len(pending) \in Nat /\ Len(batch) \in Nat
      /\ Run(buffer, k) /\ Run(pending, k + Len(buffer))
      /\ Run(batch, k + Len(buffer) + Len(pending))
      /\ given \in Nat /\ k + Len(buffer) + Len(pending) + Len(batch) = given
  BY InHand
<1>3. more \in Seq(Record) /\ Len(more) = Len(buffer) + Len(pending) /\ Run(more, k)
  BY <1>2, RunParts
<1>4. content' = [content EXCEPT ![out] = content[out] \o more]
  BY <1>1
<1>5. k + Len(more) <= given /\ k + Len(more) = k + Len(buffer) + Len(pending)
      /\ k + Len(more) \in Nat
  BY <1>2, <1>3
<1>6. Waiting(k + Len(more))'
  <2>1. Len(buffer') = 0 /\ Len(pending') = 0
    BY <1>1
  <2>2. Run(buffer, k + Len(more))' /\ k + Len(more) + Len(buffer') = k + Len(more)
    BY <1>5, <2>1 DEF Run
  <2>3. Run(pending, k + Len(more) + Len(buffer))'
    BY <2>1 DEF Run
  <2>4. k + Len(more) + Len(buffer') + Len(pending') = k + Len(buffer) + Len(pending)
    BY <1>5, <2>1
  <2>5. Run(batch, k + Len(more) + Len(buffer) + Len(pending))'
    <3>1. PICK g : g = k + Len(buffer) + Len(pending)
      OBVIOUS
    <3>2. Run(batch, g) /\ k + Len(more) + Len(buffer') + Len(pending') = g
      BY <1>2, <2>4, <3>1
    <3>3. ASSUME NEW i \in 1..Len(batch')
          PROVE  batch'[i].life = lives' /\ batch'[i].number = g + i
      BY <1>1, <3>2 DEF Run
    <3> QED
      BY <3>2, <3>3 DEF Run
  <2>6. k + Len(more) + Len(buffer') + Len(pending') + Len(batch') = given'
    BY <1>1, <1>2, <2>4
  <2>7. k + Len(more) + Len(buffer') <= given'
    BY <1>1, <1>5, <2>2
  <2>8. ~wentBack' => currentDate' <= today'
    BY <1>1
  <2> QED
    BY <2>2, <2>3, <2>5, <2>6, <2>7, <2>8 DEF Waiting
<1>7. /\ ContractInv' /\ Sink!Extends(k + Len(more)) /\ k + Len(more) \in 0..given
  BY <1>1, <1>3, <1>4, <1>5, <1>6, GoesOn
<1>8. Sink!Save
  BY <1>1, <1>7 DEF Sink!Save
<1> QED
  BY <1>7, <1>8 DEF StepKeeps, SinkStep, Sink!Next

(* Another file may take the place of the one before.                      *)
LEMMA RollContract ==
  ASSUME StepFrom, NEW k \in Nat, Written(k), phase \in {"date", "size"},
         NEW date \in Dates, NEW index \in Nat, Roll(date, index, "size"),
         ~wentBack => NotAfter(out, File(date, index)) /\ date <= today
  PROVE  StepKeeps
<1>1. /\ index \in 0..MaxIndex /\ currentDate' = date
      /\ UNCHANGED <<today, batch, historyVars>>
  BY SinkAssumption DEF Roll
<1>2. CASE OpenNewLogFile(File(date, index)) /\ phase' = "size"
  <2>1. File(date, index) \in Files /\ File(date, index).date = date
    BY <1>1 DEF File, Files
  <2> QED
    BY <1>1, <1>2, <2>1, OpenContract
<1>3. CASE FlushPending /\ Fail /\ UNCHANGED <<content, out>>
  <2>1. /\ phase' = "failed" /\ buffer' = buffer \o pending
        /\ UNCHANGED <<content, out, given, lives, safe, wentBack>>
    BY <1>1, <1>3 DEF FlushPending, Fail, historyVars
  <2>2. /\ buffer \in Seq(Record) /\ pending \in Seq(Record)
        /\ Len(buffer) \in Nat /\ Len(pending) \in Nat /\ Len(batch) \in Nat
        /\ Run(buffer, k) /\ Run(pending, k + Len(buffer))
        /\ given \in Nat /\ k + Len(buffer) + Len(pending) + Len(batch) = given
    BY InHand
  <2>3. PICK b : b = buffer \o pending
    OBVIOUS
  <2>4. Run(buffer, k)' /\ k + Len(buffer') <= given'
    <3>1. Run(b, k) /\ buffer' = b
      BY <2>1, <2>2, <2>3, RunParts
    <3>2. Len(b) = Len(buffer) + Len(pending)
      BY <2>2, <2>3
    <3>3. Run(buffer, k)'
      BY <2>1, <3>1 DEF Run
    <3> QED
      BY <2>1, <2>2, <3>1, <3>2, <3>3
  <2>5. Waiting(k)'
    BY <2>1, <2>4 DEF Waiting
  <2>6. ContractInv' /\ Sink!Extends(k) /\ k \in 0..given
    BY <2>1, <2>5, StaysSaved
  <2>7. Sink!Fail
    BY <2>1, <2>6 DEF Sink!Fail
  <2> QED
    BY <2>6, <2>7 DEF StepKeeps, SinkStep, Sink!Next
<1> QED
  BY <1>2, <1>3 DEF Roll

(* A step inside writeBatch() that saves nothing shows nothing.            *)
LEMMA ShowsNothing ==
  ASSUME StepFrom, NEW k \in Nat, Written(k), Waiting(k)',
         phase \in {"idle", "date", "size"}, phase' \in {"idle", "date", "size"},
         UNCHANGED <<content, lives, out, wentBack, given, safe>>
  PROVE  StepKeeps
<1>1. ContractInv' /\ Output' = Output
  BY StaysSaved
<1>2. UNCHANGED (Sink!vars)
  BY <1>1 DEF Sink!vars
<1> QED
  BY <1>1, <1>2 DEF StepKeeps, SinkStep

(* rollIfNeeded(): the date                                                *)
LEMMA CheckDateContract ==
  ASSUME StepFrom, NEW k \in Nat, Written(k), CheckDate
  PROVE  StepKeeps
<1>1. phase = "date" /\ today \in Dates /\ currentDate \in Dates /\ fileIndex \in Nat
  BY SinkAssumption DEF CheckDate, StepFrom, FileInv, TypeOK
<1>2. CASE today = currentDate /\ phase' = "size"
           /\ UNCHANGED <<today, streamVars, sinkVars, batch, historyVars>>
  <2>1. UNCHANGED <<content, out, buffer, pending, currentDate, today, batch,
                    given, lives, safe, wentBack>>
    BY <1>2 DEF streamVars, sinkVars, historyVars
  <2>2. Run(buffer, k)' /\ k + Len(buffer') <= given'
    BY <2>1 DEF Written, Waiting, Run
  <2>3. Run(pending, k + Len(buffer))' /\ Run(batch, k + Len(buffer) + Len(pending))'
    BY <1>1, <2>1 DEF Written, Waiting, Run
  <2>4. /\ k + Len(buffer') + Len(pending') + Len(batch') = given'
        /\ ~wentBack' => currentDate' <= today'
    BY <1>1, <2>1 DEF Written, Waiting
  <2>5. Waiting(k)'
    BY <1>2, <2>2, <2>3, <2>4 DEF Waiting
  <2> QED
    BY <1>1, <1>2, <2>1, <2>5, ShowsNothing
<1>3. CASE today # currentDate /\ WriteFails
  BY <1>1, <1>3, WriteFailsContract
<1>4. CASE today # currentDate /\ Roll(today, 0, "size")
  <2>1. out = File(currentDate, fileIndex)
    BY <1>1 DEF StepFrom, FileInv, Places
  <2>2. ~wentBack => currentDate <= today
    BY <1>1, InHand
  <2>3. today \in Nat /\ currentDate \in Nat
    BY <1>1, SinkAssumption DEF Dates
  <2>4. ~wentBack => NotAfter(out, File(today, 0)) /\ today <= today
    BY <1>4, <2>1, <2>2, <2>3 DEF NotAfter, File
  <2> QED
    BY <1>1, <1>4, <2>4, RollContract
<1> QED
  BY <1>2, <1>3, <1>4 DEF CheckDate

(* rollIfNeeded(): the size                                                *)
LEMMA RollForSizeContract ==
  ASSUME StepFrom, NEW k \in Nat, Written(k), RollForSize
  PROVE  StepKeeps
<1>1. phase = "size" /\ today \in Dates /\ currentDate \in Dates /\ fileIndex \in Nat
  BY SinkAssumption DEF RollForSize, StepFrom, FileInv, TypeOK
<1>2. out = File(currentDate, fileIndex)
  BY <1>1 DEF StepFrom, FileInv, Places
<1>3. ~wentBack => currentDate <= today
  BY <1>1, InHand
<1>4. currentDate \in Nat
  BY <1>1, SinkAssumption DEF Dates
<1>5. NotAfter(out, File(currentDate, fileIndex + 1))
  BY <1>1, <1>2, <1>4 DEF NotAfter, File
<1>6. CASE WriteFails
  BY <1>1, <1>6, WriteFailsContract
<1>7. CASE Roll(currentDate, fileIndex + 1, "size")
  <2>1. PICK d, j : d = currentDate /\ j = fileIndex + 1
    OBVIOUS
  <2>2. d \in Dates /\ j \in Nat /\ Roll(d, j, "size")
        /\ (~wentBack => NotAfter(out, File(d, j)) /\ d <= today)
    BY <1>1, <1>3, <1>5, <1>7, <2>1
  <2> QED
    BY <1>1, <2>2, RollContract
<1> QED
  BY <1>6, <1>7 DEF RollForSize

(* The next record of the batch goes to pending_.                          *)
LEMMA AppendRecordContract ==
  ASSUME StepFrom, NEW k \in Nat, Written(k), AppendRecord
  PROVE  StepKeeps
<1>1. /\ phase = "size" /\ phase' = "date"
      /\ pending' = Append(pending, Head(batch)) /\ batch' = Tail(batch)
      /\ UNCHANGED <<content, out, buffer, currentDate, today,
                     given, lives, safe, wentBack>>
  BY DEF AppendRecord, streamVars, historyVars
<1>2. /\ buffer \in Seq(Record) /\ pending \in Seq(Record) /\ batch \in Seq(Record)
      /\ Len(buffer) \in Nat /\ Len(pending) \in Nat /\ Len(batch) \in Nat
      /\ Run(buffer, k) /\ Run(pending, k + Len(buffer))
      /\ Run(batch, k + Len(buffer) + Len(pending))
      /\ given \in Nat /\ k + Len(buffer) + Len(pending) + Len(batch) = given
      /\ ~wentBack => currentDate <= today
  BY <1>1, InHand
<1>3. batch # <<>>
  BY <1>1 DEF StepFrom, FileInv, Places
<1>4. PICK h, t, p : h = Head(batch) /\ t = Tail(batch) /\ p = Append(pending, h)
  OBVIOUS
<1>5. PICK g : g = k + Len(buffer) + Len(pending)
  OBVIOUS
<1>6. /\ h = batch[1] /\ 1 \in 1..Len(batch) /\ Len(t) = Len(batch) - 1
      /\ \A i \in 1..Len(t) : t[i] = batch[i + 1] /\ i + 1 \in 1..Len(batch)
  BY <1>2, <1>3, <1>4
<1>7. /\ Len(p) = Len(pending) + 1
      /\ \A i \in 1..Len(pending) : p[i] = pending[i]
      /\ p[Len(pending) + 1] = h
  <2>1. h \in Record
    BY <1>2, <1>6
  <2> QED
    BY <1>2, <1>4, <2>1, AppendProperties
<1>8. /\ g \in Nat /\ h.life = lives /\ h.number = g + 1
      /\ \A i \in 1..Len(t) : t[i].life = lives /\ t[i].number = g + (i + 1)
  <2>1. g \in Nat /\ \A i \in 1..Len(batch) : batch[i].life = lives /\ batch[i].number = g + i
    BY <1>2, <1>5 DEF Run
  <2> QED
    BY <1>6, <2>1
<1>9. ASSUME NEW i \in 1..Len(p) PROVE p[i].life = lives /\ p[i].number = k + Len(buffer) + i
  <2>1. CASE i <= Len(pending)
    <3>1. i \in 1..Len(pending)
      BY <1>2, <2>1
    <3> QED
      BY <1>2, <1>7, <3>1 DEF Run
  <2>2. CASE ~(i <= Len(pending))
    <3>1. i = Len(pending) + 1
      BY <1>2, <1>7, <2>2
    <3> QED
      BY <1>2, <1>5, <1>7, <1>8, <3>1
  <2> QED
    BY <2>1, <2>2
<1>10. pending' = p /\ batch' = t
  BY <1>1, <1>4
<1>11. Run(buffer, k)' /\ k + Len(buffer') <= given'
  BY <1>1, <1>2 DEF Run
<1>12. Run(pending, k + Len(buffer))'
  BY <1>1, <1>9, <1>10 DEF Run
<1>13. k + Len(buffer') + Len(pending') = g + 1
  BY <1>1, <1>2, <1>5, <1>7, <1>10
<1>14. Run(batch, k + Len(buffer) + Len(pending))'
  <2>1. ASSUME NEW i \in 1..Len(t) PROVE t[i].life = lives /\ t[i].number = (g + 1) + i
    BY <1>8
  <2> QED
    BY <1>1, <1>10, <1>13, <2>1 DEF Run
<1>15. k + Len(buffer') + Len(pending') + Len(batch') = given'
  <2>1. Len(batch') = Len(batch) - 1 /\ g + Len(batch) = given /\ given' = given
    BY <1>1, <1>2, <1>5, <1>6, <1>10
  <2> QED
    <3>1. g \in Nat /\ Len(batch) \in Nat
      BY <1>2, <1>8
    <3>2. (g + 1) + (Len(batch) - 1) = g + Len(batch)
      BY <3>1
    <3> QED
      BY <1>13, <2>1, <3>2
<1>16. Waiting(k)'
  BY <1>1, <1>2, <1>11, <1>12, <1>14, <1>15 DEF Waiting
<1> QED
  BY <1>1, <1>16, ShowsNothing

(* writeBatch() hands pending_ to the stream and returns.                  *)
LEMMA EndBatchContract ==
  ASSUME StepFrom, NEW k \in Nat, Written(k), EndBatch
  PROVE  StepKeeps
<1>1. phase = "date" /\ batch = <<>>
  BY DEF EndBatch
<1>2. CASE WriteFails
  BY <1>1, <1>2, WriteFailsContract
<1>3. CASE FlushPending /\ phase' = "idle"
           /\ UNCHANGED <<today, content, out, currentDate, batch, historyVars>>
  <2>1. /\ buffer' = buffer \o pending /\ pending' = <<>> /\ batch' = <<>>
        /\ UNCHANGED <<content, out, today, currentDate, given, lives, safe, wentBack>>
    BY <1>1, <1>3 DEF FlushPending, historyVars
  <2>2. /\ buffer \in Seq(Record) /\ pending \in Seq(Record) /\ batch \in Seq(Record)
        /\ Len(buffer) \in Nat /\ Len(pending) \in Nat /\ Len(batch) = 0
        /\ Run(buffer, k) /\ Run(pending, k + Len(buffer))
        /\ given \in Nat /\ k + Len(buffer) + Len(pending) + Len(batch) = given
        /\ ~wentBack => currentDate <= today
    BY <1>1, InHand
  <2>3. PICK b : b = buffer \o pending
    OBVIOUS
  <2>4. Run(b, k) /\ buffer' = b
    BY <2>1, <2>2, <2>3, RunParts
  <2>5. Len(b) = Len(buffer) + Len(pending)
    BY <2>2, <2>3, ConcatProperties
  <2>6. /\ k + Len(buffer') = given' /\ k + Len(buffer') <= given'
        /\ Len(pending') = 0 /\ Len(batch') = 0
    BY <2>1, <2>2, <2>4, <2>5
  <2>7. Run(buffer, k)'
    BY <2>1, <2>4 DEF Run
  <2>8. Run(pending, k + Len(buffer))' /\ Run(batch, k + Len(buffer) + Len(pending))'
    BY <2>6 DEF Run
  <2>9. k + Len(buffer') + Len(pending') + Len(batch') = given'
    BY <2>1, <2>2, <2>6
  <2>10. Waiting(k)'
    BY <1>3, <2>1, <2>2, <2>6, <2>7, <2>8, <2>9 DEF Waiting
  <2> QED
    BY <1>1, <1>3, <2>1, <2>10, ShowsNothing
<1> QED
  BY <1>2, <1>3 DEF EndBatch

(* What the stream holds is saved: flush(), and after a failure the second *)
(* flush() that the worker calls.                                          *)
LEMMA FlushContract ==
  ASSUME StepFrom, NEW k \in Nat, Written(k), Flush
  PROVE  StepKeeps
<1>1. /\ phase \in {"idle", "failed"} /\ phase' = phase
      /\ content' = [content EXCEPT ![out] = content[out] \o buffer] /\ buffer' = <<>>
      /\ safe' = IF phase = "idle" THEN given ELSE safe
      /\ UNCHANGED <<out, pending, batch, given, lives, wentBack, today, currentDate>>
  BY DEF Flush, sinkVars
<1>2. PICK more : more = buffer
  OBVIOUS
<1>3. /\ more \in Seq(Record) /\ Len(more) \in Nat /\ Run(more, k)
      /\ given \in Nat /\ k + Len(more) <= given
  BY <1>2, SinkAssumption DEF StepFrom, FileInv, TypeOK, Written, Waiting
<1>4. Len(buffer') = 0 /\ k + Len(more) + Len(buffer') = k + Len(more)
  BY <1>1, <1>3
<1>5. Run(buffer, k + Len(more))' /\ k + Len(more) + Len(buffer') <= given'
  BY <1>1, <1>3, <1>4 DEF Run
<1>6. ASSUME phase = "idle"
      PROVE  /\ pending' = <<>> /\ batch' = <<>> /\ Len(pending') = 0 /\ Len(batch') = 0
             /\ k + Len(more) = given
             /\ ~wentBack' => currentDate' <= today'
  <2>1. pending = <<>> /\ batch = <<>> /\ Len(pending) = 0 /\ Len(batch) = 0
    BY <1>6 DEF Written, Waiting
  <2>2. /\ k + Len(buffer) + Len(pending) + Len(batch) = given
        /\ ~wentBack => currentDate <= today
    BY <1>6, InHand
  <2> QED
    BY <1>1, <1>2, <1>3, <2>1, <2>2
<1>7. ASSUME phase = "idle"
      PROVE  /\ Run(pending, k + Len(more) + Len(buffer))'
             /\ Run(batch, k + Len(more) + Len(buffer) + Len(pending))'
             /\ k + Len(more) + Len(buffer') + Len(pending') + Len(batch') = given'
  <2>1. Run(pending, k + Len(more) + Len(buffer))'
    BY <1>6, <1>7 DEF Run
  <2>2. Run(batch, k + Len(more) + Len(buffer) + Len(pending))'
    BY <1>6, <1>7 DEF Run
  <2> QED
    BY <1>1, <1>3, <1>4, <1>6, <1>7, <2>1, <2>2
<1>8. Waiting(k + Len(more))'
  BY <1>1, <1>5, <1>6, <1>7 DEF Waiting
<1>9. ~wentBack => NotAfter(out, out')
  <2>1. out.date \in Nat /\ out.index \in Nat
    BY SinkAssumption DEF StepFrom, FileInv, TypeOK, Files, Dates
  <2> QED
    BY <1>1, <2>1 DEF NotAfter
<1>10. content' = [content EXCEPT ![out] = content[out] \o more]
  BY <1>1, <1>2
<1>11. ContractInv' /\ Sink!Extends(k + Len(more)) /\ k + Len(more) \in 0..given
  BY <1>1, <1>3, <1>8, <1>9, <1>10, GoesOn
<1>12. CASE phase = "idle"
  <2>1. Sink!Extends(given)
    BY <1>6, <1>11, <1>12
  <2>2. Sink!Flush
    BY <1>1, <1>12, <2>1 DEF Sink!Flush
  <2> QED
    BY <1>11, <2>2 DEF StepKeeps, SinkStep, Sink!Next
<1>13. CASE phase = "failed"
  <2>1. Sink!Save
    BY <1>1, <1>11, <1>13 DEF Sink!Save
  <2> QED
    BY <1>11, <2>1 DEF StepKeeps, SinkStep, Sink!Next
<1> QED
  BY <1>1, <1>12, <1>13

(* flush() throws.                                                         *)
LEMMA FlushFailsContract ==
  ASSUME StepFrom, NEW k \in Nat, Written(k), FlushFails
  PROVE  StepKeeps
<1>1. /\ phase' = "failed" /\ phase # "down"
      /\ UNCHANGED <<content, out, buffer, given, lives, safe, wentBack>>
  BY DEF FlushFails, Fail, historyVars
<1>2. Waiting(k)'
  BY <1>1 DEF Written, Waiting, Run
<1>3. ContractInv' /\ Sink!Extends(k) /\ k \in 0..given
  BY <1>1, <1>2, StaysSaved
<1>4. Sink!Fail
  BY <1>1, <1>3 DEF Sink!Fail
<1> QED
  BY <1>3, <1>4 DEF StepKeeps, SinkStep, Sink!Next

(* close() saves what it can, from the first record on.                    *)
LEMMA CloseContract ==
  ASSUME StepFrom, NEW k \in Nat, Written(k), Close
  PROVE  StepKeeps
<1>1. PICK n \in 0..Len(buffer) :
        content' = [content EXCEPT ![out] = content[out] \o SubSeq(buffer, 1, n)]
  BY DEF Close
<1>2. /\ phase \in {"idle", "failed"} /\ phase' = "down" /\ buffer' = <<>> /\ batch' = <<>>
      /\ UNCHANGED <<out, given, lives, safe, wentBack>>
  BY DEF Close, historyVars
<1>3. PICK more : more = SubSeq(buffer, 1, n)
  OBVIOUS
<1>4. /\ buffer \in Seq(Record) /\ Len(buffer) \in Nat /\ Run(buffer, k)
      /\ given \in Nat /\ k + Len(buffer) <= given
  BY SinkAssumption DEF StepFrom, FileInv, TypeOK, Written, Waiting
<1>5. more \in Seq(Record) /\ Len(more) = n /\ Run(more, k)
  BY <1>3, <1>4, RunBegins
<1>6. k + Len(more) <= given /\ k + Len(more) \in Nat
  BY <1>4, <1>5
<1>7. Len(buffer') = 0 /\ k + Len(more) + Len(buffer') <= given'
  BY <1>2, <1>6
<1>8. Run(buffer, k + Len(more))'
  BY <1>7 DEF Run
<1>9. Waiting(k + Len(more))'
  BY <1>2, <1>7, <1>8 DEF Waiting
<1>10. ~wentBack => NotAfter(out, out')
  <2>1. out.date \in Nat /\ out.index \in Nat
    BY SinkAssumption DEF StepFrom, FileInv, TypeOK, Files, Dates
  <2> QED
    BY <1>2, <2>1 DEF NotAfter
<1>11. content' = [content EXCEPT ![out] = content[out] \o more]
  BY <1>1, <1>3
<1>12. ContractInv' /\ Sink!Extends(k + Len(more)) /\ k + Len(more) \in 0..given
  BY <1>2, <1>5, <1>6, <1>9, <1>10, <1>11, GoesOn
<1>13. Sink!Close
  BY <1>2, <1>12 DEF Sink!Close
<1> QED
  BY <1>12, <1>13 DEF StepKeeps, SinkStep, Sink!Next

(* The stream writes its first record by itself.                           *)
LEMMA SpillContract ==
  ASSUME StepFrom, NEW k \in Nat, Written(k), Spill
  PROVE  StepKeeps
<1>1. /\ buffer # <<>> /\ phase # "down"
      /\ content' = [content EXCEPT ![out] = Append(content[out], Head(buffer))]
      /\ buffer' = Tail(buffer)
      /\ UNCHANGED <<out, pending, batch, phase, today, currentDate,
                     given, lives, safe, wentBack>>
  BY DEF Spill, sinkVars, historyVars
<1>2. /\ buffer \in Seq(Record) /\ Len(buffer) \in Nat /\ Run(buffer, k) /\ given \in Nat
      /\ k + Len(buffer) <= given /\ content \in [Files -> Seq(Record)] /\ out \in Files
  BY SinkAssumption DEF StepFrom, FileInv, TypeOK, Written, Waiting
<1>3. PICK h, t, more : h = Head(buffer) /\ t = Tail(buffer) /\ more = <<h>>
  OBVIOUS
<1>4. /\ h = buffer[1] /\ h \in Record /\ 1 \in 1..Len(buffer) /\ Len(t) = Len(buffer) - 1
      /\ \A i \in 1..Len(t) : t[i] = buffer[i + 1] /\ i + 1 \in 1..Len(buffer)
      /\ more \in Seq(Record) /\ Len(more) = 1 /\ more[1] = h
  BY <1>1, <1>2, <1>3
<1>5. /\ h.life = lives /\ h.number = k + 1
      /\ \A i \in 1..Len(t) : t[i].life = lives /\ t[i].number = k + (i + 1)
  <2>1. \A i \in 1..Len(buffer) : buffer[i].life = lives /\ buffer[i].number = k + i
    BY <1>2 DEF Run
  <2> QED
    BY <1>4, <2>1
<1>6. Run(more, k)
  BY <1>4, <1>5 DEF Run
<1>7. content' = [content EXCEPT ![out] = content[out] \o more]
  <2>1. content[out] \in Seq(Record)
    BY <1>2
  <2>2. Append(content[out], h) = content[out] \o more
    BY <1>3, <1>4, <2>1, AppendIsConcat
  <2> QED
    BY <1>1, <1>3, <2>2
<1>8. /\ buffer' = t /\ k + Len(more) = k + 1
      /\ k + Len(more) + Len(buffer') = k + Len(buffer)
  BY <1>1, <1>2, <1>3, <1>4
<1>9. Run(buffer, k + Len(more))' /\ k + Len(more) + Len(buffer') <= given'
  <2>1. ASSUME NEW i \in 1..Len(t) PROVE t[i].life = lives /\ t[i].number = (k + 1) + i
    BY <1>5
  <2> QED
    BY <1>1, <1>2, <1>8, <2>1 DEF Run
<1>10. ASSUME phase \in {"idle", "date", "size"}
       PROVE  /\ Run(pending, k + Len(more) + Len(buffer))'
              /\ Run(batch, k + Len(more) + Len(buffer) + Len(pending))'
              /\ k + Len(more) + Len(buffer') + Len(pending') + Len(batch') = given'
              /\ ~wentBack' => currentDate' <= today'
  <2>1. /\ Run(pending, k + Len(buffer)) /\ Run(batch, k + Len(buffer) + Len(pending))
        /\ k + Len(buffer) + Len(pending) + Len(batch) = given
        /\ ~wentBack => currentDate <= today
    BY <1>10, InHand
  <2> QED
    BY <1>1, <1>8, <2>1 DEF Run
<1>11. Waiting(k + Len(more))'
  BY <1>1, <1>9, <1>10 DEF Written, Waiting
<1>12. ~wentBack => NotAfter(out, out')
  <2>1. out.date \in Nat /\ out.index \in Nat
    BY <1>2, SinkAssumption DEF Files, Dates
  <2> QED
    BY <1>1, <2>1 DEF NotAfter
<1>13. ContractInv' /\ Sink!Extends(k + Len(more)) /\ k + Len(more) \in 0..given
  <2>1. k + Len(more) <= given
    BY <1>2, <1>4
  <2> QED
    BY <1>1, <1>4, <1>6, <1>7, <1>11, <1>12, <2>1, GoesOn
<1>14. Sink!Save
  BY <1>1, <1>13 DEF Sink!Save
<1> QED
  BY <1>13, <1>14 DEF StepKeeps, SinkStep, Sink!Next

(* The date changes, which no reader sees.                                 *)
LEMMA NewDateContract ==
  ASSUME StepFrom, NEW k \in Nat, Written(k), NewDate \/ UNCHANGED vars
  PROVE  StepKeeps
<1>1. UNCHANGED <<content, out, buffer, pending, batch, phase, currentDate,
                  given, lives, safe>>
  BY DEF NewDate, vars, streamVars, sinkVars, historyVars
<1>2. /\ wentBack => wentBack'
      /\ ~wentBack' => ~wentBack /\ today <= today'
  <2>1. today \in Nat /\ today' \in Nat
    BY SinkAssumption DEF StepFrom, FileInv, TypeOK, Dates
  <2>2. CASE NewDate
    <3>1. wentBack' = (wentBack \/ today' < today)
      BY <2>2 DEF NewDate
    <3>2. /\ wentBack => wentBack'
          /\ ~wentBack' => ~wentBack /\ ~(today' < today)
      BY <3>1, Zenon
    <3> QED
      BY <2>1, <3>2
  <2>3. CASE UNCHANGED vars
    BY <2>1, <2>3 DEF vars, historyVars
  <2> QED
    BY <2>2, <2>3
<1>3. Run(buffer, k)' /\ k + Len(buffer') <= given'
  BY <1>1 DEF Written, Waiting, Run
<1>4. ASSUME phase \in {"idle", "date", "size"}
      PROVE  /\ Run(pending, k + Len(buffer))'
             /\ Run(batch, k + Len(buffer) + Len(pending))'
             /\ k + Len(buffer') + Len(pending') + Len(batch') = given'
             /\ ~wentBack' => currentDate' <= today'
  <2>1. /\ Run(pending, k + Len(buffer)) /\ Run(batch, k + Len(buffer) + Len(pending))
        /\ k + Len(buffer) + Len(pending) + Len(batch) = given
        /\ ~wentBack => currentDate <= today
    BY <1>4, InHand
  <2>2. currentDate \in Nat /\ today \in Nat /\ today' \in Nat
    BY SinkAssumption DEF StepFrom, FileInv, TypeOK, Dates
  <2>3. ~wentBack' => currentDate' <= today'
    BY <1>1, <1>2, <2>1, <2>2
  <2> QED
    BY <1>1, <2>1, <2>3 DEF Run
<1>5. Waiting(k)'
  BY <1>1, <1>3, <1>4 DEF Written, Waiting
<1>6. ContractInv' /\ Output' = Output
  BY <1>1, <1>2, <1>5, StaysSaved
<1>7. UNCHANGED (Sink!vars)
  BY <1>1, <1>6 DEF Sink!vars
<1> QED
  BY <1>6, <1>7 DEF StepKeeps, SinkStep

(* The process dies, which takes nothing back from the files.              *)
LEMMA CrashContract ==
  ASSUME StepFrom, NEW k \in Nat, Written(k), Crash
  PROVE  StepKeeps
<1>1. /\ phase # "down" /\ phase' = "down" /\ batch' = <<>> /\ buffer' = <<>>
      /\ UNCHANGED <<content, out, given, lives, safe, wentBack>>
  BY DEF Crash, historyVars
<1>2. /\ given \in Nat /\ buffer \in Seq(Record) /\ k + Len(buffer) <= given
  BY SinkAssumption DEF StepFrom, FileInv, TypeOK, Written, Waiting
<1>3. Len(buffer') = 0 /\ k + Len(buffer') <= given'
  <2>1. Len(buffer) \in Nat
    BY <1>2
  <2> QED
    BY <1>1, <1>2, <2>1
<1>4. Waiting(k)'
  BY <1>1, <1>3 DEF Waiting, Run
<1>5. ContractInv' /\ Sink!Extends(k) /\ k \in 0..given
  BY <1>1, <1>4, StaysSaved
<1>6. Sink!Close
  BY <1>1, <1>5 DEF Sink!Close
<1> QED
  BY <1>5, <1>6 DEF StepKeeps, SinkStep, Sink!Next

(* Every step is one of LogSink's, or shows nothing.                       *)
LEMMA NextContract == FileInv /\ ContractInv /\ [Next]_vars => SinkStep /\ ContractInv'
<1> SUFFICES ASSUME FileInv, ContractInv, [Next]_vars PROVE StepKeeps
  BY DEF StepKeeps
<1>1. StepFrom
  BY NextFiles DEF StepFrom, FileInv, ContractInv
<1>2. PICK k \in Nat : Written(k)
  BY DEF ContractInv
<1>3. CASE \E n \in 1..MaxBatch : \E sizes \in [1..n -> Sizes] : WriteBatch(sizes)
  BY <1>1, <1>2, <1>3, WriteBatchContract
<1>4. CASE Create \/ WriteStep
  BY <1>1, <1>2, <1>4, CreateContract, CheckDateContract, RollForSizeContract,
     AppendRecordContract, EndBatchContract DEF WriteStep
<1>5. CASE Flush \/ FlushFails \/ Close
  BY <1>1, <1>2, <1>5, FlushContract, FlushFailsContract, CloseContract
<1>6. CASE Spill \/ NewDate \/ Crash \/ UNCHANGED vars
  BY <1>1, <1>2, <1>6, SpillContract, NewDateContract, CrashContract
<1> QED
  BY <1>3, <1>4, <1>5, <1>6 DEF Next

(* There is nothing in the files at first.                                 *)
LEMMA InitContract == Init => ContractInv /\ Sink!Init
<1> SUFFICES ASSUME Init PROVE ContractInv /\ Sink!Init
  OBVIOUS
<1>1. /\ \A f \in Files : DOMAIN content[f] = {}
      /\ buffer = <<>> /\ batch = <<>> /\ phase = "down" /\ given = 0 /\ safe = 0
  BY DEF Init
<1>2. Lines = {}
  BY <1>1, LinesAre
<1>3. Saved(0) /\ Until(out) /\ NoneLater
  BY <1>1, <1>2 DEF Saved, Until, NoneLater
<1>4. Waiting(0)
  BY <1>1 DEF Waiting, Run
<1>5. Output = <<>>
  BY <1>3, InitFiles, ReadSaved DEF FileInv, Sink!UpTo
<1> QED
  BY <1>1, <1>3, <1>4, <1>5 DEF ContractInv, Written, Sink!Init

(* The file sink keeps what LogSink.h promises, for any sizes, any number  *)
(* of sinks one after the other, failures, crashes, date changes and       *)
(* clocks set back: its files hold an initial part of what the sink was    *)
(* given, in order and nothing twice, and all of it when flush() returns.  *)
THEOREM FileKeepsContract == Spec => ImplementsLogSink
<1>1. Sink!Spec <=> Sink!Init /\ [][Sink!Next]_(Sink!vars)
  BY DEF Sink!Spec
<1>2. FileInv /\ ContractInv /\ [Next]_vars => [Sink!Next]_(Sink!vars)
  BY NextContract DEF SinkStep
<1> QED
  BY <1>1, <1>2, InitFiles, NextFiles, InitContract, NextContract, PTL
  DEF Spec, ImplementsLogSink

================================================================================

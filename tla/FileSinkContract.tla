--------------------------- MODULE FileSinkContract ---------------------------
(* FileSink keeps the promises of LogSink.  Its output is what the present *)
(* sink has in its files, read by date, by index, from top to bottom.  If  *)
(* the date went back, the names of the files say nothing of the order.    *)
EXTENDS FileSink, FiniteSets

(* The lines of the present sink in its files *)
Lines ==
  UNION {LET s == content[f]
         IN {[file |-> f, row |-> i, number |-> s[i].number]
             : i \in {j \in DOMAIN s : s[j].life = lives}}
         : f \in {g \in Files : content[g] # <<>>}}

(* The name of p's file is before that of q's, or p is above q in one file.*)
Above(p, q) ==
  \/ p.file.date < q.file.date
  \/ /\ p.file.date = q.file.date
     /\ \/ p.file.index < q.file.index
        \/ p.file.index = q.file.index /\ p.row < q.row

Before(p, q) ==
  IF wentBack /\ p.number # q.number THEN p.number < q.number ELSE Above(p, q)

(* The numbers of the lines in the order in which they are read *)
Output ==
  LET lines == Lines
      place(n) == CHOOSE p \in lines : Cardinality({q \in lines : Before(q, p)}) = n - 1
  IN [n \in 1..Cardinality(lines) |-> place(n).number]

Sink == INSTANCE LogSink WITH
          phase <- CASE phase = "down" -> "none"
                     [] phase = "failed" -> "failed"
                     [] OTHER -> "open",
          output <- Output

(* LogSink.h: what the files hold of one sink's records is at any time an  *)
(* initial part of what it was given, in order and nothing twice; flush()  *)
(* that returns has saved all of it; rolling, a failed open or write, a    *)
(* crash or the stream's own buffering never take back what is there.      *)
ImplementsLogSink == Sink!Spec
================================================================================

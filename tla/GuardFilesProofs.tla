--------------------------- MODULE GuardFilesProofs ---------------------------
(***************************************************************************)
(* Theorems about the guard files of a traced process, for any threads,    *)
(* any number of them under one id and any number of texts.                *)
(***************************************************************************)
EXTENDS GuardFiles, SequenceTheorems, TLAPS

-----------------------------------------------------------------------------
(* Types.                                                                   *)

Streams == [state : {"none", "open", "late", "closed"}, main : BOOLEAN,
            text : Seq(Texts), buf : Seq(Texts)]
Readers == [unread : SUBSET Tids, file : Tids \cup {NoTid}, rest : Seq(Texts),
            busy : BOOLEAN, content : Seq(Texts), links : SUBSET Tids]
Ends == {"normal", "stopped", "read", "refused"}

GuardTypes ==
  /\ live \in SUBSET Tids /\ starts \in [Tids -> Nat]
  /\ creating \in [Tids -> Tids \cup {NoTid}] /\ first \in BOOLEAN
  /\ stream \in [Tids -> Streams] /\ log \in [Tids -> Seq(Texts)]
  /\ proc \in {"running", "exiting", "interrupted", "failed"} \cup Ends
  /\ reader \in Readers

\* What a file, and then the memory, hold of a thread id.
Whole(s) == s.text \o s.buf

-----------------------------------------------------------------------------
(* One text more.                                                           *)

\* A text behind what is in memory is behind all that was written.
LEMMA OneTextMore ==
  ASSUME NEW S, NEW t \in Seq(S), NEW b \in Seq(S), NEW x \in S
  PROVE  /\ t \o b \in Seq(S) /\ t \o Append(b, x) \in Seq(S)
         /\ Len(t \o b) \in Nat
         /\ Len(t \o Append(b, x)) = Len(t \o b) + 1
         /\ (t \o Append(b, x))[Len(t \o b) + 1] = x
         /\ \A i \in 1..Len(t \o b) : (t \o Append(b, x))[i] = (t \o b)[i]
<1>1. /\ t \o b \in Seq(S) /\ Len(t \o b) = Len(t) + Len(b)
      /\ \A i \in 1..(Len(t) + Len(b)) : (t \o b)[i] = IF i <= Len(t) THEN t[i] ELSE b[i - Len(t)]
  BY ONLY t \in Seq(S), b \in Seq(S), ConcatProperties
<1> DEFINE c == Append(b, x)
<1>2. /\ c \in Seq(S) /\ Len(c) = Len(b) + 1 /\ c[Len(b) + 1] = x
      /\ \A i \in 1..Len(b) : c[i] = b[i]
  OBVIOUS
<1> HIDE DEF c
<1>3. /\ t \o c \in Seq(S) /\ Len(t \o c) = Len(t) + Len(c)
      /\ \A i \in 1..(Len(t) + Len(c)) : (t \o c)[i] = IF i <= Len(t) THEN t[i] ELSE c[i - Len(t)]
  BY ONLY t \in Seq(S), <1>2, ConcatProperties
<1>4. Len(t) \in Nat /\ Len(b) \in Nat
  OBVIOUS
<1>5. Len(t \o c) = Len(t \o b) + 1
  BY <1>1, <1>2, <1>3, <1>4
<1>6. (t \o c)[Len(t \o b) + 1] = x
  <2>1. Len(t) + Len(b) + 1 \in 1..(Len(t) + Len(c)) /\ ~(Len(t) + Len(b) + 1 <= Len(t))
        /\ Len(t) + Len(b) + 1 - Len(t) = Len(b) + 1
    BY <1>2, <1>4
  <2> QED
    BY <1>1, <1>2, <1>3, <2>1
<1>7. ASSUME NEW i \in 1..(Len(t) + Len(b)) PROVE (t \o c)[i] = (t \o b)[i]
  <2>1. i \in 1..(Len(t) + Len(c))
    BY <1>2, <1>4
  <2>2. CASE i <= Len(t)
    BY <1>1, <1>3, <2>1, <2>2
  <2>3. CASE ~(i <= Len(t))
    <3>1. i - Len(t) \in 1..Len(b)
      BY <1>4, <2>3
    <3> QED
      BY <1>1, <1>2, <1>3, <2>1, <2>3, <3>1
  <2> QED
    BY <2>2, <2>3
<1> QED
  BY <1>1, <1>3, <1>4, <1>5, <1>6, <1>7 DEF c

\* What print_content_to_file does to the streams and to the log.
LEMMA WriteStep ==
  ASSUME GuardTypes, NEW t \in Tids, NEW rec \in Texts, Write(t, rec)
  PROVE  /\ stream' \in [Tids -> Streams] /\ log' \in [Tids -> Seq(Texts)]
         /\ first' \in BOOLEAN /\ Alive /\ t \in live /\ UNCHANGED <<proc, reader>>
         /\ \A u \in Tids \ {t} : stream'[u] = stream[u] /\ log'[u] = log[u]
         /\ log'[t] = IF proc = "running" THEN Append(log[t], rec) ELSE log[t]
         /\ \/ /\ stream[t].state = "none" /\ ~first'
               /\ stream'[t] = [state |-> IF Ending THEN "late" ELSE "open",
                                main |-> first, text |-> <<>>, buf |-> <<rec>>]
            \/ /\ stream[t].state = "closed"
               /\ stream'[t] = stream[t] /\ first' = first
            \/ /\ stream[t].state \in {"open", "late"} /\ first' = first
               /\ stream'[t] = [stream[t] EXCEPT !.buf = Append(stream[t].buf, rec)]
<1> USE DEF GuardTypes
<1>1. stream[t] \in Streams /\ log[t] \in Seq(Texts)
  OBVIOUS
<1>2. log' \in [Tids -> Seq(Texts)]
      /\ (\A u \in Tids \ {t} : log'[u] = log[u])
      /\ log'[t] = IF proc = "running" THEN Append(log[t], rec) ELSE log[t]
  BY DEF Write
<1>3. CASE stream[t].state = "none"
  <2> DEFINE new == [state |-> IF Ending THEN "late" ELSE "open",
                     main |-> first, text |-> <<>>, buf |-> <<rec>>]
  <2>1. new \in Streams
    <3>1. <<>> \in Seq(Texts) /\ <<rec>> \in Seq(Texts)
      OBVIOUS
    <3> QED
      BY <3>1 DEF Streams
  <2>2. stream' = [stream EXCEPT ![t] = new] /\ first' = FALSE
    BY <1>3 DEF Write, PrintContent, CreateOf
  <2> HIDE DEF new
  <2>3. stream' \in [Tids -> Streams] /\ stream'[t] = new /\ \A u \in Tids \ {t} : stream'[u] = stream[u]
    BY <2>1, <2>2
  <2> QED
    BY <1>2, <1>3, <2>2, <2>3 DEF Write, new
<1>4. CASE stream[t].state = "closed"
  BY <1>2, <1>4 DEF Write, PrintContent
<1>5. CASE stream[t].state \in {"open", "late"}
  <2> DEFINE new == [stream[t] EXCEPT !.buf = Append(stream[t].buf, rec)]
  <2>1. new \in Streams
    <3>1. Append(stream[t].buf, rec) \in Seq(Texts)
      BY <1>1 DEF Streams
    <3> QED
      BY <1>1, <3>1 DEF Streams
  <2>2. stream' = [stream EXCEPT ![t].buf = Append(@, rec)] /\ first' = first
    BY <1>5 DEF Write, PrintContent
  <2>3. stream' = [stream EXCEPT ![t] = new]
    BY <2>2
  <2> HIDE DEF new
  <2>4. stream' \in [Tids -> Streams] /\ stream'[t] = new /\ \A u \in Tids \ {t} : stream'[u] = stream[u]
    BY <2>1, <2>3
  <2> QED
    BY <1>2, <1>5, <2>2, <2>4 DEF Write, new
<1>6. stream[t].state \in {"none", "open", "late", "closed"}
  BY <1>1 DEF Streams
<1> QED
  BY <1>3, <1>4, <1>5, <1>6

\* A buffer that goes to the file, also because the stream is closed.
LEMMA FlushStep ==
  ASSUME GuardTypes, NEW t \in Tids, Flush(t) \/ CloseStream(t)
  PROVE  /\ stream' \in [Tids -> Streams] /\ Alive
         /\ UNCHANGED <<live, starts, creating, first, log, proc, reader>>
         /\ \A u \in Tids \ {t} : stream'[u] = stream[u]
         /\ stream'[t].text = Whole(stream[t]) /\ stream'[t].buf = <<>>
         /\ stream'[t].main = stream[t].main
         /\ \/ stream'[t].state = stream[t].state /\ stream[t].buf # <<>>
            \/ stream'[t].state = "closed" /\ stream[t].state = "open" /\ Ending
<1>1. stream[t] \in Streams /\ stream \in [Tids -> Streams]
  BY DEF GuardTypes
<1>2. Whole(stream[t]) \in Seq(Texts) /\ <<>> \in Seq(Texts)
  BY <1>1 DEF Whole, Streams
<1>3. CASE Flush(t)
  <2> DEFINE new == [stream[t] EXCEPT !.text = Whole(stream[t]), !.buf = <<>>]
  <2>1. /\ new \in Streams /\ new.text = Whole(stream[t]) /\ new.buf = <<>>
        /\ new.main = stream[t].main /\ new.state = stream[t].state
    BY <1>1, <1>2 DEF Streams
  <2>2. stream' = [stream EXCEPT ![t] = new]
    BY <1>1, <1>3 DEF Flush, Whole
  <2> HIDE DEF new
  <2> QED
    BY <1>1, <1>3, <2>1, <2>2 DEF Flush
<1>4. CASE CloseStream(t)
  <2> DEFINE new == [stream[t] EXCEPT !.state = "closed", !.text = Whole(stream[t]), !.buf = <<>>]
  <2>1. /\ new \in Streams /\ new.text = Whole(stream[t]) /\ new.buf = <<>>
        /\ new.main = stream[t].main /\ new.state = "closed"
    BY <1>1, <1>2 DEF Streams
  <2>2. stream' = [stream EXCEPT ![t] = new]
    BY <1>1, <1>4 DEF CloseStream, Whole
  <2> HIDE DEF new
  <2> QED
    BY <1>1, <1>4, <2>1, <2>2 DEF CloseStream, Alive, Ending
<1> QED
  BY <1>3, <1>4

\* The steps of the threads that write no text.
LEMMA ThreadTypes ==
  ASSUME ThreadAssumption, GuardTypes, NEW t \in Tids, NEW u \in Tids,
         CreateThread(t, u) \/ ForeignThread(u) \/ EndThread(t)
  PROVE  /\ live' \in SUBSET Tids /\ starts' \in [Tids -> Nat]
         /\ creating' \in [Tids -> Tids \cup {NoTid}]
         /\ UNCHANGED <<first, stream, log, proc, reader>>
  BY DEF GuardTypes, CreateThread, ForeignThread, EndThread, Started

\* The steps of the reader.
LEMMA ReadTypes ==
  ASSUME GuardTypes, Read
  PROVE  reader' \in Readers /\ UNCHANGED tracing /\ proc' \in {"read", "refused"} /\ proc \in {"normal", "read"}
<1>0. reader \in Readers /\ <<>> \in Seq(Texts) /\ reader.rest \in Seq(Texts) /\ reader.content \in Seq(Texts)
  BY DEF GuardTypes, Readers
<1>1. CASE StartReading
  <2>1. Files \in SUBSET Tids
    BY DEF Files
  <2>2. NotReading \in Readers
    BY <1>0 DEF NotReading, Readers
  <2> QED
    BY <1>1, <2>1, <2>2 DEF StartReading, Readers
<1>2. ASSUME NEW t \in Tids, OpenFile(t)
      PROVE  reader' \in Readers /\ UNCHANGED tracing /\ proc' = "read" /\ proc = "read"
  <2>1. stream[t].text \in Seq(Texts)
    BY DEF GuardTypes, Streams
  <2>2. reader' = [reader EXCEPT !.unread = reader.unread \ {t}, !.file = t, !.rest = stream[t].text]
    BY <1>2 DEF OpenFile
  <2> QED
    BY <1>0, <1>2, <2>1, <2>2 DEF OpenFile, Readers
<1>3. CASE ReadLine
  <2>1. PICK n \in DOMAIN reader.rest :
           reader' = [reader EXCEPT !.busy = TRUE, !.content = SubSeq(reader.rest, 1, n),
                                    !.rest = SubSeq(reader.rest, n + 1, Len(reader.rest))]
    BY <1>3 DEF ReadLine
  <2>2. SubSeq(reader.rest, 1, n) \in Seq(Texts)
        /\ SubSeq(reader.rest, n + 1, Len(reader.rest)) \in Seq(Texts)
    BY <1>0
  <2> QED
    BY <1>0, <1>3, <2>1, <2>2 DEF ReadLine, Readers
<1>4. CASE ParseGuard
  <2> DEFINE new == {r.of : r \in {x \in ToSet(reader.content) : x.kind = "thread"}}
  <2>1. new \in SUBSET Tids
    <3>1. \A x \in Texts : x.kind = "thread" => x.of \in Tids
      BY DEF Texts
    <3>2. ToSet(reader.content) \subseteq Texts
      BY <1>0 DEF ToSet
    <3> QED
      BY <3>1, <3>2
  <2>2. reader' = [reader EXCEPT !.busy = FALSE, !.content = <<>>, !.links = reader.links \cup new]
    BY <1>4 DEF ParseGuard
  <2> HIDE DEF new
  <2> QED
    BY <1>0, <1>4, <2>1, <2>2 DEF ParseGuard, Readers
<1>5. CASE SkipGuard
  <2>1. reader' = [reader EXCEPT !.content = IF reader.content = <<>> THEN reader.content
                                             ELSE Tail(reader.content)]
    BY <1>5 DEF SkipGuard
  <2>2. (IF reader.content = <<>> THEN reader.content ELSE Tail(reader.content)) \in Seq(Texts)
    BY <1>0
  <2> QED
    BY <1>0, <1>5, <2>1, <2>2 DEF SkipGuard, Readers
<1>6. StartReading => proc = "normal" /\ proc' = "read" /\ UNCHANGED tracing
  BY DEF StartReading
<1>7. ReadLine \/ ParseGuard \/ SkipGuard => proc = "read" /\ proc' = "read" /\ UNCHANGED tracing
  BY DEF ReadLine, ParseGuard, SkipGuard
<1>8. CASE RefuseLine
  BY <1>0, <1>8 DEF RefuseLine, GuardTypes
<1> QED
  BY <1>1, <1>2, <1>3, <1>4, <1>5, <1>6, <1>7, <1>8 DEF Read

\* The ends of the process.
LEMMA EndStep ==
  ASSUME Exit \/ Interrupt \/ Done \/ Crash
  PROVE  /\ UNCHANGED <<tracing, reader>>
         /\ Alive /\ proc' \in {"exiting", "interrupted", "failed"} \cup Ends
         /\ proc' \in Ends => AllClosed
  BY DEF Exit, Interrupt, Done, Crash, Alive, Ending, Ends

\* Every text a thread writes is one of Texts.
LEMMA TracedTexts ==
  ASSUME ThreadAssumption, GuardTypes, NEW t \in Tids, Trace(t) \/ ThreadRec(t)
  PROVE  \E rec \in Texts : Write(t, rec)
<1>1. CASE Trace(t)
  <2>1. \A kind \in {"invoc", "enter", "record"} : Rec(kind, NoTid) \in Texts
    BY DEF Rec, Texts
  <2> QED
    BY <1>1, <2>1 DEF Trace
<1>2. CASE ThreadRec(t)
  <2>1. creating[t] \in Tids
    BY <1>2 DEF GuardTypes, ThreadRec
  <2>2. Rec("thread", creating[t]) \in Texts
    BY <2>1 DEF Rec, Texts
  <2> QED
    BY <1>2, <2>2 DEF ThreadRec
<1> QED
  BY <1>1, <1>2

LEMMA GuardTypesHold ==
  ASSUME ThreadAssumption
  PROVE  /\ Init => GuardTypes
         /\ GuardTypes /\ [Next]_vars => GuardTypes'
<1>1. ASSUME Init PROVE GuardTypes
  <2>1. NoStream \in Streams /\ NotReading \in Readers /\ <<>> \in Seq(Texts)
    BY DEF NoStream, Streams, NotReading, Readers
  <2> QED
    BY <1>1, <2>1 DEF Init, GuardTypes, ThreadAssumption
<1>2. ASSUME GuardTypes, [Next]_vars PROVE GuardTypes'
  <2>1. ASSUME NEW t \in Tids, Trace(t) \/ ThreadRec(t) PROVE GuardTypes'
    <3>1. PICK rec \in Texts : Write(t, rec)
      BY <1>2, <2>1, TracedTexts
    <3>2. /\ stream' \in [Tids -> Streams] /\ log' \in [Tids -> Seq(Texts)]
          /\ first' \in BOOLEAN /\ UNCHANGED <<proc, reader>>
      BY <1>2, <3>1, WriteStep
    <3>3. live' = live /\ starts' = starts /\ creating' \in [Tids -> Tids \cup {NoTid}]
      BY <1>2, <2>1 DEF Trace, ThreadRec, GuardTypes
    <3> QED
      BY <1>2, <3>2, <3>3 DEF GuardTypes
  <2>2. ASSUME NEW t \in Tids, NEW u \in Tids, CreateThread(t, u) \/ ForeignThread(u) \/ EndThread(t)
        PROVE  GuardTypes'
    BY <1>2, <2>2, ThreadTypes DEF GuardTypes
  <2>3. ASSUME NEW t \in Tids, Flush(t) \/ CloseStream(t) PROVE GuardTypes'
    <3>1. stream' \in [Tids -> Streams] /\ UNCHANGED <<live, starts, creating, first, log, proc, reader>>
      BY <1>2, <2>3, FlushStep
    <3> QED
      BY <1>2, <3>1 DEF GuardTypes
  <2>4. CASE Exit \/ Interrupt \/ Done \/ Crash
    <3>1. UNCHANGED <<tracing, reader>> /\ proc' \in {"exiting", "interrupted", "failed"} \cup Ends
      BY <2>4, EndStep
    <3> QED
      BY <1>2, <3>1 DEF GuardTypes, tracing
  <2>5. CASE Read
    <3>1. reader' \in Readers /\ UNCHANGED tracing /\ proc' \in {"read", "refused"}
      BY <1>2, <2>5, ReadTypes
    <3> QED
      BY <1>2, <3>1 DEF GuardTypes, tracing, Ends
  <2>6. CASE UNCHANGED vars
    BY <1>2, <2>6 DEF GuardTypes, vars, tracing
  <2> QED
    BY <1>2, <2>1, <2>2, <2>3, <2>4, <2>5, <2>6 DEF Next
<1> QED
  BY <1>1, <1>2

-----------------------------------------------------------------------------
(* What was written is on the disk.                                         *)

Begins(s, u) == Len(s) <= Len(u) /\ \A i \in 1..Len(s) : s[i] = u[i]

\* Until the process begins to end, file and memory hold exactly what was written;
\* from then on they only grow, and a stream that is closed has nothing in memory.
\* A stream opened while the others are closed is that of a thread that had
\* written nothing before.
Held(t) ==
  /\ Begins(log[t], Whole(stream[t]))
  /\ stream[t].state = "none" => stream[t].text = <<>> /\ stream[t].buf = <<>>
  /\ stream[t].state \in {"none", "late"} => log[t] = <<>>
  /\ stream[t].state = "closed" => stream[t].buf = <<>>
  /\ proc = "running" =>
       /\ stream[t].state \in {"none", "open"}
       /\ Len(log[t]) = Len(Whole(stream[t]))

Kept ==
  /\ \A t \in Tids : Held(t)
  /\ proc \in Ends => AllClosed

\* A text written is held, in memory at first.
LEMMA WriteHeld ==
  ASSUME GuardTypes, NEW t \in Tids, NEW rec \in Texts, Write(t, rec), Held(t)
  PROVE  Held(t)'
<1> DEFINE s == stream[t]
           w == Whole(s)
<1>1. /\ s \in Streams /\ s.text \in Seq(Texts) /\ s.buf \in Seq(Texts) /\ log[t] \in Seq(Texts)
      /\ Len(log[t]) \in Nat
  BY DEF GuardTypes, Streams
<1>2. /\ w \in Seq(Texts) /\ Len(w) \in Nat
      /\ Len(s.text \o Append(s.buf, rec)) = Len(w) + 1
      /\ (s.text \o Append(s.buf, rec))[Len(w) + 1] = rec
      /\ \A i \in 1..Len(w) : (s.text \o Append(s.buf, rec))[i] = w[i]
  <2>1. ASSUME NEW a \in Seq(Texts), NEW b \in Seq(Texts)
        PROVE  /\ a \o b \in Seq(Texts) /\ Len(a \o b) \in Nat
               /\ Len(a \o Append(b, rec)) = Len(a \o b) + 1
               /\ (a \o Append(b, rec))[Len(a \o b) + 1] = rec
               /\ \A i \in 1..Len(a \o b) : (a \o Append(b, rec))[i] = (a \o b)[i]
    BY ONLY rec \in Texts, <2>1, OneTextMore
  <2>2. w = s.text \o s.buf
    BY DEF Whole
  <2> HIDE DEF s, w
  <2> QED
    BY <1>1, <2>1, <2>2
<1>3. /\ log'[t] = IF proc = "running" THEN Append(log[t], rec) ELSE log[t]
      /\ UNCHANGED proc /\ Alive
      /\ \/ /\ s.state = "none"
            /\ stream'[t] = [state |-> IF Ending THEN "late" ELSE "open",
                             main |-> first, text |-> <<>>, buf |-> <<rec>>]
         \/ s.state = "closed" /\ stream'[t] = s
         \/ /\ s.state \in {"open", "late"}
            /\ stream'[t] = [s EXCEPT !.buf = Append(s.buf, rec)]
  BY WriteStep
<1>4. Ending <=> proc # "running"
  BY <1>3 DEF Alive, Ending
<1>5. /\ Len(Append(log[t], rec)) = Len(log[t]) + 1 /\ Append(log[t], rec)[Len(log[t]) + 1] = rec
      /\ \A i \in 1..Len(log[t]) : Append(log[t], rec)[i] = log[t][i]
  BY <1>1
<1>6. CASE s.state = "none"
  <2>1. stream'[t].state = (IF Ending THEN "late" ELSE "open") /\ Whole(stream'[t]) = <<rec>>
    <3>1. <<>> \o <<rec>> = <<rec>>
      OBVIOUS
    <3>2. stream'[t] = [state |-> IF Ending THEN "late" ELSE "open",
                        main |-> first, text |-> <<>>, buf |-> <<rec>>]
      BY <1>3, <1>6
    <3>3. /\ stream'[t].state = (IF Ending THEN "late" ELSE "open")
          /\ stream'[t].text = <<>> /\ stream'[t].buf = <<rec>>
      BY <3>2
    <3>4. Whole(stream'[t]) = <<>> \o <<rec>>
      BY <3>3 DEF Whole
    <3> QED
      BY <3>1, <3>3, <3>4
  <2>2. log[t] = <<>>
    BY <1>6 DEF Held
  <2>3. CASE proc = "running"
    <3>1. log'[t] = <<rec>>
      BY <1>3, <2>2, <2>3
    <3>2. stream'[t].state = "open"
      BY <1>4, <2>1, <2>3
    <3>3. Begins(<<rec>>, <<rec>>)
      BY DEF Begins
    <3> QED
      BY <2>1, <3>1, <3>2, <3>3 DEF Held
  <2>4. CASE proc # "running"
    <3>1. log'[t] = <<>> /\ proc' # "running"
      BY <1>3, <2>2, <2>4
    <3>2. stream'[t].state = "late"
      BY <1>4, <2>1, <2>4
    <3>3. Begins(<<>>, <<rec>>)
      BY DEF Begins
    <3> QED
      BY <2>1, <3>1, <3>2, <3>3 DEF Held
  <2> QED
    BY <2>3, <2>4
<1>7. CASE s.state = "closed"
  <2>1. proc # "running"
    BY <1>7 DEF Held
  <2>2. stream'[t] = stream[t] /\ log'[t] = log[t] /\ proc' = proc
    BY <1>3, <1>7, <2>1
  <2> QED
    BY <2>2 DEF Held
<1>8. CASE s.state \in {"open", "late"}
  <2>1. /\ stream'[t].state = s.state /\ Whole(stream'[t]) = s.text \o Append(s.buf, rec)
    BY <1>1, <1>3, <1>8 DEF Whole, Streams
  <2> DEFINE v == s.text \o Append(s.buf, rec)
  <2>2. Len(v) = Len(w) + 1 /\ v[Len(w) + 1] = rec /\ \A i \in 1..Len(w) : v[i] = w[i]
    BY <1>2
  <2> HIDE DEF v, w
  <2>3. Len(log[t]) <= Len(w) /\ \A i \in 1..Len(log[t]) : log[t][i] = w[i]
    BY DEF Held, Begins, w
  <2>4. CASE proc = "running"
    <3>1. log'[t] = Append(log[t], rec) /\ Len(log[t]) = Len(w) /\ proc' = "running" /\ s.state = "open"
      BY <1>3, <1>8, <2>4 DEF Held, w
    <3>2. ASSUME NEW i \in 1..(Len(log[t]) + 1) PROVE Append(log[t], rec)[i] = v[i]
      <4>1. i = Len(log[t]) + 1 \/ i \in 1..Len(log[t])
        BY <1>1
      <4> QED
        BY <1>5, <2>2, <2>3, <3>1, <4>1
    <3>3. Begins(Append(log[t], rec), v) /\ Len(Append(log[t], rec)) = Len(v)
      BY <1>1, <1>5, <2>2, <3>1, <3>2 DEF Begins
    <3> QED
      BY <2>1, <3>1, <3>3 DEF Held, v
  <2>5. CASE proc # "running"
    <3>1. log'[t] = log[t] /\ proc' # "running"
      BY <1>3, <2>5
    <3>2. Begins(log[t], v)
      <4>1. Len(log[t]) <= Len(v)
        BY <1>1, <1>2, <2>2, <2>3 DEF w
      <4>2. \A i \in 1..Len(log[t]) : i \in 1..Len(w)
        BY <1>1, <1>2, <2>3 DEF w
      <4> QED
        BY <2>2, <2>3, <4>1, <4>2 DEF Begins
    <3>3. s.state = "late" => log[t] = <<>>
      BY DEF Held
    <3>4. s.state = "open" \/ s.state = "late"
      BY <1>8
    <3> QED
      BY <2>1, <3>1, <3>2, <3>3, <3>4 DEF Held, v
  <2> QED
    BY <2>4, <2>5
<1>9. s.state \in {"none", "open", "late", "closed"}
  BY <1>1 DEF Streams
<1> QED
  BY <1>6, <1>7, <1>8, <1>9

\* Nothing is lost between memory and file.
LEMMA FlushHeld ==
  ASSUME GuardTypes, NEW t \in Tids, Flush(t) \/ CloseStream(t), Held(t)
  PROVE  Held(t)'
<1> DEFINE s == stream[t]
<1>1. /\ stream'[t].text = Whole(s) /\ stream'[t].buf = <<>>
      /\ UNCHANGED <<log, proc>>
      /\ \/ stream'[t].state = s.state /\ s.buf # <<>>
         \/ stream'[t].state = "closed" /\ s.state = "open" /\ Ending
  BY FlushStep
<1>2. Whole(s) \in Seq(Texts)
  BY DEF GuardTypes, Streams, Whole
<1>3. Whole(stream'[t]) = Whole(s)
  <2>1. Whole(s) \o <<>> = Whole(s)
    BY <1>2
  <2> QED
    BY <1>1, <2>1 DEF Whole
<1>4. stream'[t].state = "closed" \/ (stream'[t].state = s.state /\ s.state # "none")
  BY <1>1 DEF Held
<1>5. proc = "running" => stream'[t].state = s.state
  BY <1>1 DEF Ending
<1> HIDE DEF s
<1> QED
  BY <1>1, <1>3, <1>4, <1>5 DEF Held, s

LEMMA KeptHolds ==
  ASSUME ThreadAssumption
  PROVE  /\ Init => Kept
         /\ GuardTypes /\ Kept /\ [Next]_vars => Kept'
<1>1. ASSUME Init PROVE Kept
  <2>1. Whole(NoStream) = <<>> /\ Begins(<<>>, <<>>)
    BY DEF Whole, NoStream, Begins
  <2>2. \A t \in Tids : stream[t] = NoStream /\ log[t] = <<>> /\ proc = "running"
    BY <1>1 DEF Init
  <2>3. NoStream.state = "none" /\ NoStream.text = <<>> /\ NoStream.buf = <<>>
    BY DEF NoStream
  <2>4. proc \notin Ends
    BY <1>1 DEF Init, Ends
  <2> QED
    BY <2>1, <2>2, <2>3, <2>4 DEF Kept, Held
<1>2. ASSUME GuardTypes, Kept, [Next]_vars PROVE Kept'
  <2>1. ASSUME NEW t \in Tids, Trace(t) \/ ThreadRec(t) PROVE Kept'
    <3>1. PICK rec \in Texts : Write(t, rec)
      BY <1>2, <2>1, TracedTexts
    <3>2. Held(t)'
      BY <1>2, <3>1, WriteHeld DEF Kept
    <3>3. UNCHANGED proc /\ Alive /\ \A u \in Tids \ {t} : stream'[u] = stream[u] /\ log'[u] = log[u]
      BY <1>2, <3>1, WriteStep
    <3>4. \A u \in Tids \ {t} : Held(u)'
      BY <1>2, <3>3 DEF Kept, Held
    <3>5. proc' \notin Ends
      BY <3>3 DEF Alive, Ends
    <3> QED
      BY <3>2, <3>4, <3>5 DEF Kept
  <2>2. ASSUME NEW t \in Tids, Flush(t) \/ CloseStream(t) PROVE Kept'
    <3>1. Held(t)'
      BY <1>2, <2>2, FlushHeld DEF Kept
    <3>2. UNCHANGED <<proc, log>> /\ Alive /\ \A u \in Tids \ {t} : stream'[u] = stream[u]
      BY <1>2, <2>2, FlushStep
    <3>3. \A u \in Tids \ {t} : Held(u)'
      BY <1>2, <3>2 DEF Kept, Held
    <3>4. proc' \notin Ends
      BY <3>2 DEF Alive, Ends
    <3> QED
      BY <3>1, <3>3, <3>4 DEF Kept
  <2>3. ASSUME UNCHANGED <<stream, log>>, proc' # "running" \/ proc' = proc,
               proc' \in Ends => AllClosed
        PROVE  Kept'
    <3>1. \A t \in Tids : Held(t)'
      BY <1>2, <2>3 DEF Kept, Held
    <3>2. AllClosed' <=> AllClosed
      BY <2>3 DEF AllClosed
    <3> QED
      BY <2>3, <3>1, <3>2 DEF Kept
  <2>4. ASSUME NEW t \in Tids, NEW u \in Tids, CreateThread(t, u) \/ ForeignThread(u) \/ EndThread(t)
        PROVE  Kept'
    BY <1>2, <2>3, <2>4, ThreadTypes DEF Kept
  <2>5. CASE Exit \/ Interrupt \/ Done \/ Crash
    <3>1. /\ UNCHANGED <<tracing, reader>> /\ proc' \in {"exiting", "interrupted", "failed"} \cup Ends
          /\ proc' \in Ends => AllClosed
      BY <2>5, EndStep
    <3>2. proc' # "running"
      BY <3>1 DEF Ends
    <3> QED
      BY <2>3, <3>1, <3>2 DEF tracing
  <2>6. CASE Read
    <3>1. UNCHANGED tracing /\ proc' \in {"read", "refused"} /\ proc \in {"normal", "read"}
      BY <1>2, <2>6, ReadTypes
    <3> QED
      BY <1>2, <2>3, <3>1 DEF tracing, Kept, Ends
  <2>7. CASE UNCHANGED vars
    BY <1>2, <2>3, <2>7 DEF vars, tracing, Kept
  <2> QED
    BY <1>2, <2>1, <2>2, <2>4, <2>5, <2>6, <2>7 DEF Next
<1> QED
  BY <1>1, <1>2

\* Where the process ends in order, a closed file holds all that was written.
LEMMA KeptOnDisk ==
  ASSUME GuardTypes, Kept, proc \in Ends, NEW t \in Tids
  PROVE  Begins(log[t], stream[t].text) /\ IsPrefix(log[t], stream[t].text)
<1> DEFINE s == stream[t]
<1>1. s \in Streams /\ s.text \in Seq(Texts) /\ log[t] \in Seq(Texts)
  BY DEF GuardTypes, Streams
<1>2. s.state # "open" /\ Held(t)
  BY DEF Kept, AllClosed
<1>3. CASE s.state = "closed"
  <2>1. Whole(s) = s.text
    <3>1. Whole(s) = s.text \o <<>>
      BY <1>2, <1>3 DEF Held, Whole
    <3>2. s.text \o <<>> = s.text
      BY <1>1
    <3> QED
      BY <3>1, <3>2
  <2>2. Begins(log[t], s.text)
    BY <1>2, <2>1 DEF Held
  <2> QED
    BY <1>1, <2>2 DEF Begins, IsPrefix
<1>4. CASE s.state # "closed"
  <2>1. log[t] = <<>>
    BY <1>1, <1>2, <1>4 DEF Held, Streams
  <2> QED
    BY <1>1, <2>1 DEF Begins, IsPrefix
<1> QED
  BY <1>3, <1>4

\* Whatever the threads write while the streams are closed, and however often an id
\* is given to a new thread: what was written before main returned, or before the
\* interrupt, is in the file of its id.
THEOREM NothingWrittenIsLost == ThreadAssumption => (Spec => []WrittenIsOnDisk)
<1> SUFFICES ASSUME ThreadAssumption PROVE Spec => []WrittenIsOnDisk
  OBVIOUS
<1>1. Init => GuardTypes /\ Kept
  BY GuardTypesHold, KeptHolds
<1>2. GuardTypes /\ Kept /\ [Next]_vars => GuardTypes' /\ Kept'
  BY GuardTypesHold, KeptHolds
<1>3. GuardTypes /\ Kept => WrittenIsOnDisk
  BY KeptOnDisk DEF WrittenIsOnDisk, Ends
<1> QED
  BY <1>1, <1>2, <1>3, PTL DEF Spec

-----------------------------------------------------------------------------
(* The file of the main thread.                                             *)

\* The flag says whether a file is still to be created, and only the first file is
\* the main one.  A thread that instrumented code creates comes after a text of
\* the main thread.
MainFirst ==
  /\ first => Files = {}
  /\ ~first => Files # {}
  /\ OneMainFile
  /\ Main \in live
  /\ ~Foreign => /\ MainFileIsMains
                 /\ Main \notin Files => live = {Main} /\ Files = {}

\* A text adds at most a file, the main one if it is the first.
LEMMA WriteFiles ==
  ASSUME GuardTypes, NEW t \in Tids, NEW rec \in Texts, Write(t, rec)
  PROVE  /\ t \in live /\ \A u \in Tids \ {t} : stream'[u] = stream[u]
         /\ \/ t \notin Files /\ Files' = Files \cup {t} /\ first' = FALSE /\ stream'[t].main = first
            \/ t \in Files /\ Files' = Files /\ first' = first /\ stream'[t].main = stream[t].main
<1>1. /\ t \in live /\ \A u \in Tids \ {t} : stream'[u] = stream[u]
      /\ first' \in BOOLEAN
      /\ \/ /\ stream[t].state = "none" /\ ~first'
            /\ stream'[t] = [state |-> IF Ending THEN "late" ELSE "open",
                             main |-> first, text |-> <<>>, buf |-> <<rec>>]
         \/ /\ stream[t].state = "closed"
            /\ stream'[t] = stream[t] /\ first' = first
         \/ /\ stream[t].state \in {"open", "late"} /\ first' = first
            /\ stream'[t] = [stream[t] EXCEPT !.buf = Append(stream[t].buf, rec)]
  BY WriteStep
<1>2. stream[t] \in Streams
  BY DEF GuardTypes
<1>3. CASE stream[t].state = "none"
  <2>1. stream'[t].state # "none" /\ stream'[t].main = first /\ first' = FALSE
    BY <1>1, <1>3
  <2>2. t \notin Files /\ Files' = Files \cup {t}
    BY <1>1, <1>3, <2>1 DEF Files
  <2> QED
    BY <1>1, <2>1, <2>2
<1>4. CASE stream[t].state # "none"
  <2>1. stream'[t].state = stream[t].state /\ stream'[t].main = stream[t].main /\ first' = first
    BY <1>1, <1>2, <1>4 DEF Streams
  <2>2. t \in Files /\ Files' = Files
    BY <1>1, <1>4, <2>1 DEF Files
  <2> QED
    BY <1>1, <2>1, <2>2
<1> QED
  BY <1>3, <1>4

\* A buffer that goes to its file leaves the files what they are.
LEMMA FlushFiles ==
  ASSUME GuardTypes, NEW t \in Tids, Flush(t) \/ CloseStream(t)
  PROVE  Files' = Files /\ \A u \in Tids : stream'[u].main = stream[u].main
<1>1. /\ \A u \in Tids \ {t} : stream'[u] = stream[u]
      /\ stream'[t].main = stream[t].main
  BY FlushStep
<1>2. stream'[t].state # "none" <=> stream[t].state # "none"
  <2>1. CASE CloseStream(t)
    <3>1. stream[t].state = "open" /\ stream[t].buf \in Seq(Texts)
      BY <2>1 DEF CloseStream, GuardTypes, Streams
    <3>2. stream'[t].state = stream[t].state \/ stream'[t].state = "closed"
      BY FlushStep
    <3> QED
      BY <3>1, <3>2
  <2>2. CASE Flush(t)
    <3>1. stream'[t] = [stream[t] EXCEPT !.text = @ \o stream[t].buf, !.buf = <<>>]
      BY <2>2 DEF Flush, GuardTypes
    <3>2. stream[t] \in Streams
      BY DEF GuardTypes
    <3> QED
      BY <3>1, <3>2 DEF Streams
  <2> QED
    BY <2>1, <2>2
<1> QED
  BY <1>1, <1>2 DEF Files

\* A thread that has written has a file.
LEMMA WritersHaveFiles ==
  ASSUME Kept, NEW t \in Tids, log[t] # <<>>
  PROVE  t \in Files
  BY DEF Kept, Held, Files

LEMMA MainFirstHolds ==
  ASSUME ThreadAssumption
  PROVE  /\ Init => MainFirst
         /\ GuardTypes /\ Kept /\ MainFirst /\ [Next]_vars => MainFirst'
<1>1. ASSUME Init PROVE MainFirst
  <2>1. Files = {} /\ first = TRUE /\ live = {Main}
    BY <1>1 DEF Init, Files, NoStream
  <2> QED
    BY <2>1 DEF MainFirst, OneMainFile, MainFileIsMains
<1>2. ASSUME GuardTypes, Kept, MainFirst, [Next]_vars PROVE MainFirst'
  <2>0. Main \in Tids /\ first \in BOOLEAN
    BY <1>2 DEF ThreadAssumption, GuardTypes
  <2>1. ASSUME Files' = Files, first' = first, \A u \in Tids : stream'[u].main = stream[u].main,
               Main \in live', ~Foreign /\ Main \notin Files => live' = live
        PROVE  MainFirst'
    <3>1. \A u \in Files : u \in Tids
      BY DEF Files
    <3> QED
      BY <1>2, <2>1, <3>1 DEF MainFirst, OneMainFile, MainFileIsMains
  <2>2. ASSUME NEW t \in Tids, Trace(t) \/ ThreadRec(t) PROVE MainFirst'
    <3>1. PICK rec \in Texts : Write(t, rec)
      BY <1>2, <2>2, TracedTexts
    <3>2. /\ t \in live /\ \A u \in Tids \ {t} : stream'[u] = stream[u]
          /\ \/ t \notin Files /\ Files' = Files \cup {t} /\ first' = FALSE /\ stream'[t].main = first
             \/ t \in Files /\ Files' = Files /\ first' = first /\ stream'[t].main = stream[t].main
      BY <1>2, <3>1, WriteFiles
    <3>3. live' = live
      BY <2>2 DEF Trace, ThreadRec
    <3>4. CASE t \in Files
      BY <1>2, <2>1, <3>2, <3>3, <3>4 DEF MainFirst
    <3>5. CASE t \notin Files
      <4>1. Files' = Files \cup {t} /\ first' = FALSE /\ stream'[t].main = first
            /\ \A u \in Files : stream'[u].main = stream[u].main
        BY <3>2, <3>5 DEF Files
      <4>2. OneMainFile'
        <5>1. CASE first
          <6>1. Files' = {t} /\ stream'[t].main
            BY <1>2, <4>1, <5>1 DEF MainFirst
          <6> QED
            BY <6>1 DEF OneMainFile
        <5>2. CASE ~first
          <6>1. PICK v \in Files : \A u \in Files : stream[u].main <=> u = v
            BY <1>2, <5>2 DEF MainFirst, OneMainFile
          <6>2. \A u \in Files' : stream'[u].main <=> u = v
            BY <3>5, <4>1, <5>2, <6>1
          <6> QED
            BY <4>1, <6>1, <6>2 DEF OneMainFile
        <5> QED
          BY <5>1, <5>2
      <4>3. ASSUME ~Foreign PROVE MainFileIsMains' /\ Main \in Files'
        <5>1. CASE Main \in Files
          <6>1. ~first /\ t # Main
            BY <1>2, <3>5, <5>1 DEF MainFirst
          <6>2. \A u \in Files : stream[u].main <=> u = Main
            BY <1>2, <4>3 DEF MainFirst, MainFileIsMains
          <6> QED
            BY <4>1, <5>1, <6>1, <6>2 DEF MainFileIsMains
        <5>2. CASE Main \notin Files
          <6>1. t = Main /\ Files = {} /\ first
            BY <1>2, <2>0, <3>2, <4>3, <5>2 DEF MainFirst
          <6> QED
            BY <4>1, <6>1 DEF MainFileIsMains
        <5> QED
          BY <5>1, <5>2
      <4> QED
        BY <1>2, <3>3, <4>1, <4>2, <4>3 DEF MainFirst
    <3> QED
      BY <3>4, <3>5
  <2>3. ASSUME NEW t \in Tids, NEW u \in Tids, CreateThread(t, u) \/ ForeignThread(u) \/ EndThread(t)
        PROVE  MainFirst'
    <3>1. UNCHANGED <<first, stream, log, proc, reader>>
      BY <1>2, <2>3, ThreadTypes
    <3>2. Files' = Files
      BY <3>1 DEF Files
    <3>3. Main \in live'
      BY <1>2, <2>3 DEF MainFirst, CreateThread, ForeignThread, EndThread, Started
    <3>4. ASSUME ~Foreign, Main \notin Files PROVE FALSE
      <4>1. live = {Main}
        BY <1>2, <3>4 DEF MainFirst
      <4>2. CreateThread(t, u) => Main \in Files
        BY <1>2, <2>0, <4>1, WritersHaveFiles DEF CreateThread
      <4>3. ~ForeignThread(u) /\ ~EndThread(t)
        BY <3>4, <4>1 DEF ForeignThread, EndThread
      <4> QED
        BY <2>3, <3>4, <4>2, <4>3
    <3> QED
      BY <2>1, <3>1, <3>2, <3>3, <3>4
  <2>4. ASSUME NEW t \in Tids, Flush(t) \/ CloseStream(t) PROVE MainFirst'
    <3>1. Files' = Files /\ \A u \in Tids : stream'[u].main = stream[u].main
      BY <1>2, <2>4, FlushFiles
    <3>2. live' = live /\ first' = first
      BY <1>2, <2>4, FlushStep
    <3> QED
      BY <1>2, <2>1, <3>1, <3>2 DEF MainFirst
  <2>5. ASSUME UNCHANGED tracing PROVE MainFirst'
    <3>1. Files' = Files
      BY <2>5 DEF tracing, Files
    <3> QED
      BY <1>2, <2>1, <2>5, <3>1 DEF tracing, MainFirst
  <2>6. CASE Exit \/ Interrupt \/ Done \/ Crash
    BY <2>5, <2>6, EndStep
  <2>7. CASE Read
    BY <1>2, <2>5, <2>7, ReadTypes
  <2>8. CASE UNCHANGED vars
    BY <2>5, <2>8 DEF vars
  <2> QED
    BY <1>2, <2>2, <2>3, <2>4, <2>6, <2>7, <2>8 DEF Next
<1> QED
  BY <1>1, <1>2

\* The tree of the main thread is found: however the threads race for their first
\* record, one file has the suffix, and it is that of the main thread where all
\* threads come from instrumented code.
THEOREM MainTreeIsFound == ThreadAssumption => (Spec => [](OneMainFile /\ MainFileIsMains))
<1> SUFFICES ASSUME ThreadAssumption PROVE Spec => [](OneMainFile /\ MainFileIsMains)
  OBVIOUS
<1>1. Init => GuardTypes /\ Kept /\ MainFirst
  BY GuardTypesHold, KeptHolds, MainFirstHolds
<1>2. GuardTypes /\ Kept /\ MainFirst /\ [Next]_vars => GuardTypes' /\ Kept' /\ MainFirst'
  BY GuardTypesHold, KeptHolds, MainFirstHolds
<1>3. MainFirst => OneMainFile /\ MainFileIsMains
  BY DEF MainFirst, MainFileIsMains
<1> QED
  BY <1>1, <1>2, <1>3, PTL DEF Spec

-----------------------------------------------------------------------------
(* The threads and the records of their creation.                           *)

Named(s) == {s[i].of : i \in {j \in 1..Len(s) : s[j].kind = "thread"}}

Ordered == {"running", "exiting", "normal", "read", "refused"}

\* Every thread but the main one was created by a call in instrumented code, and
\* its creator has written so, or will before the process comes to its end.
CreationsAreWritten ==
  /\ \A t \in Tids : t \in live \/ stream[t].state # "none" => starts[t] > 0
  /\ \A t \in Tids : creating[t] # NoTid => t \in live
  /\ Tidy /\ proc \in Ordered \ {"running"} => live = {Main} /\ creating[Main] = NoTid
  /\ Tidy /\ ~Foreign /\ proc \in Ordered =>
       \A u \in Tids \ {Main} : starts[u] > 0 =>
         \E t \in Tids : creating[t] = u \/ u \in Named(log[t])

\* What the reader has read names threads that are linked, or are about to be: in
\* the line it holds only the last text may be the record of a creation.
LinksAreRead ==
  proc = "read" =>
    /\ ~reader.busy => reader.content = <<>>
    /\ \A i \in 1..Len(reader.content) : i < Len(reader.content) => reader.content[i].kind = "invoc"
    /\ \A t \in Files \ reader.unread :
         Named(stream[t].text) \subseteq
           reader.links \cup Named(reader.content) \cup Named(reader.rest)

\* What a sequence names, and what becomes of it when it is cut, or extended.
LEMMA NamedIn ==
  ASSUME NEW s, NEW u
  PROVE  u \in Named(s) <=> \E i \in 1..Len(s) : s[i].kind = "thread" /\ s[i].of = u
  BY DEF Named

LEMMA NamedAppend ==
  ASSUME NEW s \in Seq(Texts), NEW x \in Texts
  PROVE  /\ Named(s) \subseteq Named(Append(s, x))
         /\ x.kind = "thread" => x.of \in Named(Append(s, x))
<1> DEFINE c == Append(s, x)
<1>1. /\ Len(s) \in Nat /\ Len(c) = Len(s) + 1 /\ c[Len(s) + 1] = x
      /\ \A i \in 1..Len(s) : c[i] = s[i]
  OBVIOUS
<1> HIDE DEF c
<1>2. ASSUME NEW u \in Named(s) PROVE u \in Named(c)
  <2>1. PICK i \in 1..Len(s) : s[i].kind = "thread" /\ s[i].of = u
    BY NamedIn
  <2>2. i \in 1..Len(c) /\ c[i] = s[i]
    BY <1>1
  <2> QED
    BY <2>1, <2>2, NamedIn
<1>3. Len(s) + 1 \in 1..Len(c)
  BY <1>1
<1>4. x.kind = "thread" => x.of \in Named(c)
  BY <1>1, <1>3, NamedIn
<1> QED
  BY <1>2, <1>4 DEF c

LEMMA NamedSplit ==
  ASSUME NEW s \in Seq(Texts), NEW n \in 1..Len(s)
  PROVE  Named(s) \subseteq Named(SubSeq(s, 1, n)) \cup Named(SubSeq(s, n + 1, Len(s)))
<1> DEFINE l == SubSeq(s, 1, n)
           r == SubSeq(s, n + 1, Len(s))
<1>1. /\ Len(s) \in Nat /\ n \in Nat
      /\ Len(l) = n /\ \A i \in 1..n : l[i] = s[i]
  OBVIOUS
<1>2. Len(r) = Len(s) - n /\ \A i \in 1..(Len(s) - n) : r[i] = s[n + i]
  OBVIOUS
<1> HIDE DEF l, r
<1>3. ASSUME NEW u \in Named(s) PROVE u \in Named(l) \cup Named(r)
  <2>1. PICK i \in 1..Len(s) : s[i].kind = "thread" /\ s[i].of = u
    BY NamedIn
  <2>2. CASE i <= n
    <3>1. i \in 1..Len(l) /\ l[i] = s[i]
      BY <1>1, <2>2
    <3> QED
      BY <2>1, <3>1, NamedIn
  <2>3. CASE ~(i <= n)
    <3>1. i - n \in 1..Len(r) /\ n + (i - n) = i /\ i - n \in 1..(Len(s) - n)
      BY <1>1, <1>2, <2>3
    <3>2. r[i - n] = s[i]
      BY <1>2, <3>1
    <3> QED
      BY <2>1, <3>1, <3>2, NamedIn
  <2> QED
    BY <2>2, <2>3
<1> QED
  BY <1>3 DEF l, r

LEMMA NamedBegins ==
  ASSUME NEW s \in Seq(Texts), NEW r \in Seq(Texts), Begins(s, r)
  PROVE  Named(s) \subseteq Named(r)
<1>1. ASSUME NEW u \in Named(s) PROVE u \in Named(r)
  <2>1. PICK i \in 1..Len(s) : s[i].kind = "thread" /\ s[i].of = u
    BY NamedIn
  <2>2. i \in 1..Len(r) /\ r[i] = s[i]
    BY DEF Begins
  <2> QED
    BY <2>1, <2>2, NamedIn
<1> QED
  BY <1>1

-----------------------------------------------------------------------------

LEMMA CreationsHold ==
  ASSUME ThreadAssumption
  PROVE  /\ Init => CreationsAreWritten
         /\ GuardTypes /\ CreationsAreWritten /\ [Next]_vars => CreationsAreWritten'
<1> USE DEF CreationsAreWritten
<1>0. Main \in Tids /\ NoTid \notin Tids
  BY DEF ThreadAssumption
<1>1. ASSUME Init PROVE CreationsAreWritten
  BY <1>0, <1>1 DEF Init, NoStream
<1>2. ASSUME GuardTypes, CreationsAreWritten, [Next]_vars PROVE CreationsAreWritten'
  <2>1. ASSUME NEW t \in Tids, NEW rec \in Texts, Write(t, rec),
               UNCHANGED <<live, starts>>,
               \/ creating' = creating /\ (t = Main => proc # "exiting")
               \/ /\ creating[t] # NoTid /\ rec = Rec("thread", creating[t])
                  /\ creating' = [creating EXCEPT ![t] = NoTid]
        PROVE  CreationsAreWritten'
    <3>1. /\ log' \in [Tids -> Seq(Texts)] /\ Alive /\ t \in live /\ proc' = proc
          /\ \A u \in Tids \ {t} : stream'[u] = stream[u] /\ log'[u] = log[u]
          /\ log'[t] = IF proc = "running" THEN Append(log[t], rec) ELSE log[t]
      BY <1>2, <2>1, WriteStep
    <3>2. \A u \in Tids : u \in live' \/ stream'[u].state # "none" => starts'[u] > 0
      BY <1>2, <2>1, <3>1
    <3>3. \A u \in Tids : creating'[u] # NoTid => creating[u] # NoTid /\ creating'[u] = creating[u]
      BY <1>2, <2>1 DEF GuardTypes
    <3>4. \A u \in Tids : creating'[u] # NoTid => u \in live'
      BY <1>2, <2>1, <3>3
    <3>5. Tidy /\ proc' \in Ordered \ {"running"} => live' = {Main} /\ creating'[Main] = NoTid
      BY <1>0, <1>2, <2>1, <3>1, <3>3
    <3>6. ASSUME Tidy, ~Foreign, proc' \in Ordered, NEW u \in Tids \ {Main}, starts'[u] > 0
          PROVE  \E v \in Tids : creating'[v] = u \/ u \in Named(log'[v])
      <4>1. PICK v \in Tids : creating[v] = u \/ u \in Named(log[v])
        BY <1>2, <2>1, <3>1, <3>6
      <4>2. proc = "running"
        <5>1. SUFFICES ASSUME proc # "running" PROVE FALSE
          OBVIOUS
        <5>2. t = Main /\ creating[Main] = NoTid /\ proc = "exiting"
          BY <1>2, <3>1, <3>6, <5>1 DEF Ordered, Alive
        <5> QED
          BY <2>1, <5>2
      <4>3. log[t] \in Seq(Texts) /\ log'[t] = Append(log[t], rec)
        BY <1>2, <3>1, <4>2 DEF GuardTypes
      <4>4. Named(log[t]) \subseteq Named(log'[t]) /\ (rec.kind = "thread" => rec.of \in Named(log'[t]))
        BY <2>1, <4>3, NamedAppend
      <4>5. u \in Named(log[v]) => u \in Named(log'[v])
        BY <3>1, <4>4
      <4>6. ASSUME creating[v] = u PROVE creating'[v] = u \/ u \in Named(log'[v])
        <5>1. CASE creating' = creating
          BY <4>6, <5>1
        <5>2. CASE rec = Rec("thread", creating[t]) /\ creating' = [creating EXCEPT ![t] = NoTid]
          <6>1. rec.kind = "thread" /\ rec.of = creating[t]
            BY <5>2 DEF Rec
          <6>2. v # t => creating'[v] = creating[v]
            BY <1>2, <5>2 DEF GuardTypes
          <6> QED
            BY <4>4, <4>6, <6>1, <6>2
        <5> QED
          BY <2>1, <5>1, <5>2
      <4> QED
        BY <4>1, <4>5, <4>6
    <3> QED
      BY <3>2, <3>4, <3>5, <3>6
  <2>2. ASSUME NEW t \in Tids, Trace(t) PROVE CreationsAreWritten'
    <3>1. PICK rec \in Texts : Write(t, rec)
      BY <1>2, <2>2, TracedTexts
    <3> QED
      BY <2>1, <2>2, <3>1 DEF Trace
  <2>3. ASSUME NEW t \in Tids, ThreadRec(t) PROVE CreationsAreWritten'
    <3>1. creating[t] \in Tids
      BY <1>2, <2>3 DEF GuardTypes, ThreadRec
    <3>2. Rec("thread", creating[t]) \in Texts
      BY <3>1 DEF Rec, Texts
    <3> QED
      BY <2>1, <2>3, <3>2 DEF ThreadRec
  <2>4. ASSUME NEW t \in Tids, NEW u \in Tids, CreateThread(t, u) PROVE CreationsAreWritten'
    <3>1. /\ proc = "running" /\ t \in live /\ creating[t] = NoTid
          /\ live' = live \cup {u} /\ starts' = [starts EXCEPT ![u] = starts[u] + 1]
          /\ creating' = [creating EXCEPT ![t] = u] /\ UNCHANGED <<first, stream, log, proc, reader>>
      BY <2>4 DEF CreateThread, Started
    <3>2. \A v \in Tids : starts'[v] = (IF v = u THEN starts[v] + 1 ELSE starts[v]) /\ starts[v] \in Nat
      BY <1>2, <3>1 DEF GuardTypes
    <3>3. creating'[t] = u /\ \A v \in Tids \ {t} : creating'[v] = creating[v]
      BY <1>2, <3>1 DEF GuardTypes
    <3>4. \A v \in Tids : v \in live' \/ stream'[v].state # "none" => starts'[v] > 0
      BY <1>2, <3>1, <3>2
    <3>5. \A v \in Tids : creating'[v] # NoTid => v \in live'
      BY <1>2, <3>1, <3>3
    <3>6. ASSUME Tidy, ~Foreign, NEW x \in Tids \ {Main}, starts'[x] > 0
          PROVE  \E v \in Tids : creating'[v] = x \/ x \in Named(log'[v])
      <4>1. CASE x = u
        BY <3>3, <4>1
      <4>2. CASE x # u
        <5>1. PICK v \in Tids : creating[v] = x \/ x \in Named(log[v])
          BY <1>2, <3>1, <3>2, <3>6, <4>2 DEF Ordered
        <5> QED
          BY <1>0, <3>1, <3>3, <5>1
      <4> QED
        BY <4>1, <4>2
    <3> QED
      BY <3>1, <3>4, <3>5, <3>6
  <2>5. ASSUME NEW u \in Tids, ForeignThread(u) PROVE CreationsAreWritten'
    <3>1. /\ Foreign /\ proc = "running"
          /\ live' = live \cup {u} /\ starts' = [starts EXCEPT ![u] = starts[u] + 1]
          /\ UNCHANGED <<creating, first, stream, log, proc, reader>>
      BY <2>5 DEF ForeignThread, Started
    <3>2. \A v \in Tids : starts'[v] = (IF v = u THEN starts[v] + 1 ELSE starts[v]) /\ starts[v] \in Nat
      BY <1>2, <3>1 DEF GuardTypes
    <3> QED
      BY <1>2, <3>1, <3>2
  <2>6. ASSUME NEW t \in Tids, EndThread(t) PROVE CreationsAreWritten'
    <3>1. /\ t \in live /\ t # Main /\ creating[t] = NoTid /\ live' = live \ {t}
          /\ UNCHANGED <<starts, creating, first, stream, log, proc, reader>>
      BY <2>6 DEF EndThread
    <3> QED
      BY <1>2, <3>1
  <2>7. ASSUME NEW t \in Tids, Flush(t) \/ CloseStream(t) PROVE CreationsAreWritten'
    <3>1. /\ UNCHANGED <<live, starts, creating, first, log, proc, reader>>
          /\ Files' = Files
      BY <1>2, <2>7, FlushStep, FlushFiles
    <3>2. \A u \in Tids : stream'[u].state # "none" <=> stream[u].state # "none"
      BY <3>1 DEF Files
    <3> QED
      BY <1>2, <3>1, <3>2
  <2>8. CASE Exit
    <3>1. /\ proc = "running" /\ creating[Main] = NoTid /\ (Tidy => live = {Main})
          /\ proc' = "exiting" /\ UNCHANGED <<tracing, reader>>
      BY <2>8 DEF Exit
    <3> QED
      BY <1>2, <3>1 DEF tracing, Ordered
  <2>9. CASE Interrupt \/ Crash
    <3>1. proc' \notin Ordered /\ UNCHANGED <<tracing, reader>>
      BY <2>9 DEF Interrupt, Crash, Ordered
    <3> QED
      BY <1>2, <3>1 DEF tracing
  <2>10. CASE Done
    <3>1. proc' \in Ordered => proc = "exiting" /\ proc' = "normal"
      BY <2>10 DEF Done, Ending, Ordered
    <3>2. UNCHANGED tracing /\ "exiting" \in Ordered \ {"running"} /\ "normal" # "running"
      BY <2>10 DEF Done, Ordered
    <3> QED
      BY <1>2, <3>1, <3>2 DEF tracing
  <2>11. CASE Read
    <3>1. UNCHANGED tracing /\ proc' \in {"read", "refused"} /\ proc \in {"normal", "read"}
      BY <1>2, <2>11, ReadTypes
    <3>2. proc \in Ordered \ {"running"}
      BY <3>1 DEF Ordered
    <3> QED
      BY <1>2, <3>1, <3>2 DEF tracing
  <2>12. CASE UNCHANGED vars
    BY <1>2, <2>12 DEF vars, tracing
  <2> QED
    BY <1>2, <2>2, <2>3, <2>4, <2>5, <2>6, <2>7, <2>8, <2>9, <2>10, <2>11, <2>12 DEF Next
<1> QED
  BY <1>1, <1>2

\* What a closed file names is linked or still to be parsed, through every step of
\* the reader: only the location of a call is ever skipped.
LEMMA LinksHold ==
  ASSUME ThreadAssumption
  PROVE  /\ Init => LinksAreRead
         /\ GuardTypes /\ LinksAreRead /\ [Next]_vars => LinksAreRead'
<1>1. ASSUME Init PROVE LinksAreRead
  BY <1>1 DEF Init, LinksAreRead
<1>2. ASSUME GuardTypes, LinksAreRead, [Next]_vars PROVE LinksAreRead'
  <2>0. /\ reader \in Readers /\ reader.content \in Seq(Texts) /\ reader.rest \in Seq(Texts)
        /\ \A t \in Tids : stream[t].text \in Seq(Texts)
    BY <1>2 DEF GuardTypes, Readers, Streams
  <2>1. CASE proc' # "read"
    BY <2>1 DEF LinksAreRead
  <2> DEFINE Told(t, r) == Named(stream[t].text) \subseteq r.links \cup Named(r.content) \cup Named(r.rest)
  <2>2. ASSUME Read,
               reader'.busy \/ reader'.content = <<>>,
               \A i \in 1..Len(reader'.content) : i < Len(reader'.content) => reader'.content[i].kind = "invoc",
               \A t \in Files \ reader'.unread : Told(t, reader')
        PROVE  LinksAreRead'
    <3>1. stream' = stream /\ Files' = Files
      BY <1>2, <2>2, ReadTypes DEF tracing, Files
    <3> QED
      BY <2>2, <3>1 DEF LinksAreRead
  <2>3. CASE StartReading
    <3>1. reader' = [NotReading EXCEPT !.unread = Files]
      BY <2>3 DEF StartReading
    <3>2. reader'.unread = Files /\ reader'.content = <<>>
      BY <3>1 DEF NotReading
    <3> QED
      BY <2>2, <2>3, <3>2 DEF Read
  <2>4. ASSUME NEW t \in Tids, OpenFile(t) PROVE LinksAreRead'
    <3>1. /\ proc = "read" /\ ~reader.busy /\ reader.rest = <<>>
          /\ reader' = [reader EXCEPT !.unread = reader.unread \ {t}, !.file = t, !.rest = stream[t].text]
      BY <2>4 DEF OpenFile
    <3>2. /\ reader'.unread = reader.unread \ {t} /\ reader'.rest = stream[t].text
          /\ reader'.links = reader.links /\ reader'.content = reader.content
      BY <2>0, <3>1 DEF Readers
    <3>3. /\ reader.content = <<>>
          /\ \A u \in Files \ reader.unread :
               Named(stream[u].text) \subseteq reader.links \cup Named(reader.content) \cup Named(reader.rest)
      BY <1>2, <3>1 DEF LinksAreRead
    <3>4. Named(<<>>) = {}
      BY DEF Named
    <3>5. \A u \in Files \ reader'.unread : Told(u, reader')
      BY <3>1, <3>2, <3>3, <3>4
    <3> QED
      BY <2>2, <2>4, <3>2, <3>3, <3>5 DEF Read
  <2>5. CASE ReadLine
    <3>1. PICK n \in DOMAIN reader.rest :
            /\ EndsLine(reader.rest, n)
            /\ reader' = [reader EXCEPT !.busy = TRUE, !.content = SubSeq(reader.rest, 1, n),
                                        !.rest = SubSeq(reader.rest, n + 1, Len(reader.rest))]
      BY <2>5 DEF ReadLine
    <3>2. /\ reader'.busy /\ reader'.content = SubSeq(reader.rest, 1, n)
          /\ reader'.rest = SubSeq(reader.rest, n + 1, Len(reader.rest))
          /\ reader'.unread = reader.unread /\ reader'.links = reader.links
      BY <2>0, <3>1 DEF Readers
    <3>3. n \in 1..Len(reader.rest)
      BY <2>0
    <3>4. Len(reader'.content) = n /\ \A i \in 1..n : reader'.content[i] = reader.rest[i]
      BY <2>0, <3>2, <3>3
    <3>5. \A i \in 1..Len(reader'.content) : i < Len(reader'.content) => reader'.content[i].kind = "invoc"
      BY <3>1, <3>3, <3>4 DEF EndsLine
    <3>6. Named(reader.rest) \subseteq Named(reader'.content) \cup Named(reader'.rest)
      BY <2>0, <3>2, <3>3, NamedSplit
    <3>7. /\ reader.content = <<>>
          /\ \A u \in Files \ reader.unread :
               Named(stream[u].text) \subseteq reader.links \cup Named(reader.content) \cup Named(reader.rest)
      BY <1>2, <2>5 DEF LinksAreRead, ReadLine
    <3>8. Named(<<>>) = {}
      BY DEF Named
    <3>9. \A u \in Files \ reader'.unread : Told(u, reader')
      BY <3>2, <3>6, <3>7, <3>8
    <3> QED
      BY <2>2, <2>5, <3>2, <3>5, <3>9 DEF Read
  <2>6. CASE ParseGuard
    <3> DEFINE new == {r.of : r \in {x \in ToSet(reader.content) : x.kind = "thread"}}
    <3>1. reader' = [reader EXCEPT !.busy = FALSE, !.content = <<>>, !.links = reader.links \cup new]
      BY <2>6 DEF ParseGuard
    <3>2. Named(reader.content) \subseteq new
      BY <2>0 DEF Named, ToSet
    <3> HIDE DEF new
    <3>3. /\ reader'.content = <<>> /\ reader'.rest = reader.rest
          /\ reader'.unread = reader.unread /\ reader'.links = reader.links \cup new
      BY <2>0, <3>1 DEF Readers
    <3>4. \A u \in Files \ reader.unread :
            Named(stream[u].text) \subseteq reader.links \cup Named(reader.content) \cup Named(reader.rest)
      BY <1>2, <2>6 DEF LinksAreRead, ParseGuard
    <3>5. \A u \in Files \ reader'.unread : Told(u, reader')
      BY <3>2, <3>3, <3>4
    <3> QED
      BY <2>2, <2>6, <3>3, <3>5 DEF Read
  <2>7. CASE SkipGuard
    <3> DEFINE c == reader.content
               d == IF c = <<>> THEN c ELSE Tail(c)
    <3>1. reader' = [reader EXCEPT !.content = d]
      BY <2>7 DEF SkipGuard
    <3>2. /\ proc = "read" /\ reader.busy /\ ~Parses(c)
          /\ \A i \in 1..Len(c) : i < Len(c) => c[i].kind = "invoc"
          /\ \A u \in Files \ reader.unread :
               Named(stream[u].text) \subseteq reader.links \cup Named(c) \cup Named(reader.rest)
      BY <1>2, <2>7 DEF LinksAreRead, SkipGuard
    <3>3. c \in Seq(Texts) /\ Len(c) \in Nat
      BY <2>0
    <3>4. \/ c = <<>> /\ d = <<>>
          \/ /\ c # <<>> /\ Len(c) > 0 /\ Len(d) = Len(c) - 1
             /\ \A i \in 1..Len(d) : d[i] = c[i + 1]
      BY <3>3
    <3> HIDE DEF c, d
    <3>5. ASSUME c # <<>> PROVE c[1].kind = "invoc"
      <4>1. 1 \in 1..Len(c)
        BY <3>3, <3>4, <3>5
      <4>2. CASE Len(c) = 1
        BY <3>2, <4>2 DEF Parses
      <4>3. CASE Len(c) # 1
        <5>1. 1 < Len(c)
          <6>1. \A n \in Nat : n > 0 /\ n # 1 => 1 < n
            OBVIOUS
          <6>2. Len(c) > 0
            BY <3>4, <3>5
          <6> QED
            BY ONLY <3>3, <4>3, <6>1, <6>2
        <5> QED
          BY <3>2, <4>1, <5>1
      <4> QED
        BY <4>2, <4>3
    <3>6. reader'.content = d /\ reader'.busy /\ reader'.rest = reader.rest
          /\ reader'.unread = reader.unread /\ reader'.links = reader.links
      BY <2>0, <3>1, <3>2 DEF Readers
    <3>7. \A i \in 1..Len(d) : i < Len(d) => d[i].kind = "invoc"
      <4>1. Len(<<>>) = 0
        OBVIOUS
      <4> QED
        BY <3>2, <3>3, <3>4, <4>1
    <3>8. Named(c) \subseteq Named(d)
      <4>1. ASSUME NEW u \in Named(c) PROVE u \in Named(d)
        <5>1. PICK i \in 1..Len(c) : c[i].kind = "thread" /\ c[i].of = u
          BY NamedIn
        <5>2. c # <<>>
          <6>1. Len(<<>>) = 0
            OBVIOUS
          <6> QED
            BY <5>1, <6>1
        <5>3. i # 1
          BY <3>5, <5>1, <5>2
        <5>4. i - 1 \in 1..Len(d) /\ (i - 1) + 1 = i
          BY <3>3, <3>4, <5>1, <5>2, <5>3
        <5>5. d[i - 1] = c[i]
          BY <3>4, <5>2, <5>4
        <5> QED
          BY <5>1, <5>4, <5>5, NamedIn
      <4> QED
        BY <4>1
    <3>9. \A u \in Files \ reader'.unread : Told(u, reader')
      BY <3>2, <3>6, <3>8
    <3> QED
      BY <2>2, <2>7, <3>6, <3>7, <3>9 DEF Read
  <2>16. CASE RefuseLine
    BY <2>1, <2>16 DEF RefuseLine
  <2>8. CASE Read
    BY <2>3, <2>4, <2>5, <2>6, <2>7, <2>8, <2>16 DEF Read
  <2>9. ASSUME UNCHANGED <<stream, proc, reader>> PROVE LinksAreRead'
    <3>1. Files' = Files
      BY <2>9 DEF Files
    <3> QED
      BY <1>2, <2>9, <3>1 DEF LinksAreRead
  <2>10. ASSUME Alive, proc' = proc PROVE LinksAreRead'
    BY <2>1, <2>10 DEF Alive
  <2>11. ASSUME NEW t \in Tids, Trace(t) \/ ThreadRec(t) PROVE LinksAreRead'
    <3>1. PICK rec \in Texts : Write(t, rec)
      BY <1>2, <2>11, TracedTexts
    <3> QED
      BY <1>2, <2>10, <3>1, WriteStep
  <2>12. ASSUME NEW t \in Tids, NEW u \in Tids, CreateThread(t, u) \/ ForeignThread(u) \/ EndThread(t)
         PROVE  LinksAreRead'
    BY <1>2, <2>9, <2>12, ThreadTypes
  <2>13. ASSUME NEW t \in Tids, Flush(t) \/ CloseStream(t) PROVE LinksAreRead'
    BY <1>2, <2>10, <2>13, FlushStep
  <2>14. CASE Exit \/ Interrupt \/ Done \/ Crash
    BY <2>1, <2>14 DEF Exit, Interrupt, Done, Crash
  <2>15. CASE UNCHANGED vars
    BY <2>9, <2>15 DEF vars, tracing
  <2> QED
    BY <1>2, <2>8, <2>11, <2>12, <2>13, <2>14, <2>15 DEF Next
<1> QED
  BY <1>1, <1>2

\* When all files are read, nothing is left to be parsed, and the threads that wrote
\* them were all created by a call whose record is on the disk.
LEMMA AllAreLinked ==
  ASSUME ThreadAssumption, GuardTypes, Kept, CreationsAreWritten, LinksAreRead
  PROVE  TreesAreLinked
<1> SUFFICES ASSUME Tidy, ~Foreign, AllRead, NEW u \in Files \ {Main} PROVE u \in reader.links
  BY DEF TreesAreLinked
<1>1. proc = "read" /\ reader.unread = {} /\ reader.rest = <<>> /\ ~reader.busy
      /\ proc \in Ordered \ {"running"} /\ proc \in Ends
  BY DEF AllRead, Ordered, Ends
<1>2. u \in Tids \ {Main} /\ starts[u] > 0
  BY DEF Files, CreationsAreWritten
<1>3. \A t \in Tids : creating[t] = NoTid
  BY <1>1 DEF CreationsAreWritten
<1>4. PICK t \in Tids : u \in Named(log[t])
  BY <1>1, <1>2, <1>3 DEF CreationsAreWritten, ThreadAssumption
<1>5. log[t] \in Seq(Texts) /\ stream[t].text \in Seq(Texts)
  BY DEF GuardTypes, Streams
<1>6. u \in Named(stream[t].text)
  BY <1>1, <1>4, <1>5, KeptOnDisk, NamedBegins
<1>7. t \in Files
  <2>1. log[t] # <<>>
    BY <1>4 DEF Named
  <2> QED
    BY <2>1, WritersHaveFiles
<1>8. Named(<<>>) = {}
  BY DEF Named
<1> QED
  BY <1>1, <1>6, <1>7, <1>8 DEF LinksAreRead

\* The forest is connected: in a run whose threads come from instrumented code and
\* end before it, every tree but the main one hangs below the action that created
\* its thread, in whatever order the files were read.
THEOREM ForestIsLinked == ThreadAssumption => (Spec => []TreesAreLinked)
<1> SUFFICES ASSUME ThreadAssumption PROVE Spec => []TreesAreLinked
  OBVIOUS
<1> DEFINE Inv == GuardTypes /\ Kept /\ CreationsAreWritten /\ LinksAreRead
<1>1. Init => Inv
  BY GuardTypesHold, KeptHolds, CreationsHold, LinksHold
<1>2. Inv /\ [Next]_vars => Inv'
  BY GuardTypesHold, KeptHolds, CreationsHold, LinksHold
<1>3. Inv => TreesAreLinked
  BY AllAreLinked
<1> QED
  BY <1>1, <1>2, <1>3, PTL DEF Spec
=============================================================================

-------------------------- MODULE TraceTreeProofs --------------------------
(***************************************************************************)
(* Theorems about the reader of a guard file, for every program whose      *)
(* functions end by returning and are not called again from their own      *)
(* loops, every LOOP_LIMIT and any number of records.                      *)
(***************************************************************************)
EXTENDS TraceTree, FuncStackProofs, SequenceTheorems, NaturalsInduction,
        WellFoundedInduction

-----------------------------------------------------------------------------
(* Reading many records.                                                    *)

\* Every set of numbers has a least one.
LEMMA Least ==
  ASSUME NEW T \in SUBSET Nat, T # {}
  PROVE  \E n \in T : \A m \in T : n <= m
<1> DEFINE R == {ss \in Nat \X Nat : ss[1] < ss[2]}
<1>1. IsWellFoundedOn(R, Nat)
  BY NatLessThanWellFounded DEF OpToRel
<1>2. \E n \in T : \A m \in T : ~(<<m, n>> \in R)
  <2> HIDE DEF R
  <2> QED
    BY <1>1, WFMin
<1>3. PICK n \in T : \A m \in T : ~(<<m, n>> \in R)
  BY <1>2
<1>4. \A m \in T : ~(m < n) /\ m \in Nat /\ n \in Nat
  BY <1>3
<1> QED
  BY <1>4

\* The readings of the first n records, one after the other.
Reads(f, t, recs, n) ==
  f[0] = t /\ \A i \in 1..n : f[i] = ReadRecord(f[i - 1], recs[i])

LEMMA ReadsExist ==
  ASSUME NEW t, NEW recs
  PROVE  \A n \in Nat : \E f : Reads(f, t, recs, n)
<1> DEFINE T == {n \in Nat : ~\E f : Reads(f, t, recs, n)}
<1> SUFFICES ASSUME T # {} PROVE FALSE
  OBVIOUS
<1>1. PICK n \in T : \A m \in T : n <= m
  <2> HIDE DEF T
  <2>1. T \in SUBSET Nat
    BY DEF T
  <2> QED
    BY <2>1, Least
<1>2. n \in Nat /\ ~\E f : Reads(f, t, recs, n)
  OBVIOUS
<1>3. n # 0
  <2>1. Reads([i \in {0} |-> t], t, recs, 0)
    BY DEF Reads
  <2> QED
    BY <1>2, <2>1
<1>4. n - 1 \in Nat /\ n - 1 \notin T
  BY <1>1, <1>2, <1>3
<1>5. PICK f : Reads(f, t, recs, n - 1)
  BY <1>4
<1> DEFINE g == [i \in 0..n |-> IF i = n THEN ReadRecord(f[n - 1], recs[n]) ELSE f[i]]
<1>6. g[0] = t
  BY <1>2, <1>3, <1>5 DEF Reads
<1>7. ASSUME NEW i \in 1..n
      PROVE  g[i] = ReadRecord(g[i - 1], recs[i])
  <2>1. g[i - 1] = f[i - 1]
    BY <1>2
  <2>2. CASE i = n
    BY <1>2, <2>1, <2>2
  <2>3. CASE i # n
    <3>1. i \in 1..(n - 1) /\ g[i] = f[i]
      BY <1>2, <2>3
    <3> QED
      BY <1>5, <2>1, <3>1 DEF Reads
  <2> QED
    BY <2>2, <2>3
<1>8. Reads(g, t, recs, n)
  <2> HIDE DEF g
  <2> QED
    BY <1>6, <1>7 DEF Reads
<1> QED
  BY <1>2, <1>8

\* ReadAll reads one record after the other.
LEMMA ReadAllReads ==
  ASSUME NEW t, NEW recs, Len(recs) \in Nat
  PROVE  \E f : Reads(f, t, recs, Len(recs)) /\ ReadAll(t, recs) = f[Len(recs)]
<1> DEFINE after[n \in 0..Len(recs)] ==
             IF n = 0 THEN t ELSE ReadRecord(after[n - 1], recs[n])
           N == Len(recs)
<1>1. ReadAll(t, recs) = after[N]
  BY DEF ReadAll
<1>2. PICK f : Reads(f, t, recs, N)
  BY ReadsExist
<1> DEFINE g == [n \in 0..N |-> f[n]]
<1>3. g = [n \in 0..N |-> IF n = 0 THEN t ELSE ReadRecord(g[n - 1], recs[n])]
  <2>1. \A n \in 0..N : f[n] = IF n = 0 THEN t ELSE ReadRecord(g[n - 1], recs[n])
    BY <1>2 DEF Reads
  <2> QED
    BY <2>1
<1>4. after = [n \in 0..N |-> IF n = 0 THEN t ELSE ReadRecord(after[n - 1], recs[n])]
  <2>1. \E h : h = [n \in 0..N |-> IF n = 0 THEN t ELSE ReadRecord(h[n - 1], recs[n])]
    BY <1>3
  <2> QED
    BY <2>1
<1> HIDE DEF after
<1>5. Reads(after, t, recs, N)
  <2>1. after[0] = t
    BY <1>4
  <2>2. \A i \in 1..N : after[i] = ReadRecord(after[i - 1], recs[i])
    BY <1>4
  <2> QED
    BY <2>1, <2>2 DEF Reads
<1> QED
  BY <1>1, <1>5

-----------------------------------------------------------------------------
(* The invariant.                                                           *)

Trees == [path : Seq(Names), failed : BOOLEAN, open : BOOLEAN]

\* A reader that has not failed.
Reading(t) == t \in Trees /\ ~t.failed

\* A frame is in a loop that is past the limit.
Exceeds(frame) == \E j \in DOMAIN frame.loops : frame.loops[j].hits > LOOP_LIMIT

\* Frame i was entered while the guards were not silent: no frame below it was
\* past the limit, and the lock, if it is taken, was not taken below it.
Voiced(i) ==
  /\ \A j \in 1..(i - 1) : ~Exceeds(frames[j])
  /\ ~(recurLock.value /\ recurLock.idx + 1 < i)

\* The path names the frames that were entered voiced, and no other.
Followed ==
  /\ Len(tree.path) <= Len(frames)
  /\ \A i \in 1..Len(tree.path) : tree.path[i] = NameOf[frames[i].func]
  /\ \A i \in 1..Len(frames) : i <= Len(tree.path) <=> Voiced(i)

TInv ==
  /\ Reading(tree)
  /\ Followed
  /\ frames = <<>> => ~tree.open

\* What is known of the thread alone.
Known == TypeOK /\ StackIsCallStack /\ LockOnOutermostRepeat /\ LoopGuardExact

-----------------------------------------------------------------------------
(* What a few records do to the tree.                                       *)

\* The record of a call adds its name to the path.
LEMMA ReadEnter ==
  ASSUME NEW t, Reading(t), NEW f \in Funcs
  PROVE  LET u == ReadRecord(t, <<"enter", f>>)
         IN  Reading(u) /\ u.path = Append(t.path, NameOf[f]) /\ ~u.open
<1> DEFINE rec == <<"enter", f>>
           m == [t EXCEPT !.path = Append(t.path, NameOf[f])]
<1>0. NameOf[f] \in Names /\ t.path \in Seq(Names)
  BY NameAssumption DEF Reading, Trees
<1>1. m \in Trees /\ m.path = Append(t.path, NameOf[f]) /\ m.failed = t.failed
  <2>1. Append(t.path, NameOf[f]) \in Seq(Names)
    BY <1>0
  <2> QED
    BY <2>1 DEF Reading, Trees
<1>2. rec[1] = "enter" /\ rec[2] = f
  OBVIOUS
<1>3. Move(t, rec) = m
  BY <1>2 DEF Move
<1>4. ReadRecord(t, rec) = [m EXCEPT !.open = FALSE]
  <2>1. (rec[1] = "invoc") = FALSE
    BY <1>2
  <2> HIDE DEF m, rec
  <2> QED
    BY <1>3, <2>1 DEF ReadRecord, Reading
<1> HIDE DEF m, rec
<1>5. [m EXCEPT !.open = FALSE] \in Trees
  BY <1>1 DEF Trees
<1> QED
  BY <1>1, <1>4, <1>5 DEF Reading, Trees, rec

\* The record of a return takes the last name off.
LEMMA ReadReturn ==
  ASSUME NEW t, Reading(t), t.path # <<>>, NEW rec, rec[1] = "return"
  PROVE  LET u == ReadRecord(t, rec)
         IN  Reading(u) /\ u.path = Front(t.path) /\ ~u.open
<1> DEFINE m == [t EXCEPT !.path = Front(t.path)]
<1>1. m \in Trees /\ m.path = Front(t.path) /\ m.failed = t.failed
  <2>1. t.path \in Seq(Names)
    BY DEF Reading, Trees
  <2>2. Front(t.path) \in Seq(Names)
    BY <2>1 DEF Front
  <2> QED
    BY <2>2 DEF Reading, Trees
<1>2. Move(t, rec) = m
  BY DEF Move
<1>3. ReadRecord(t, rec) = [m EXCEPT !.open = FALSE]
  <2>1. (rec[1] = "invoc") = FALSE
    OBVIOUS
  <2> HIDE DEF m
  <2> QED
    BY <1>2, <2>1 DEF ReadRecord, Reading
<1> HIDE DEF m
<1>4. [m EXCEPT !.open = FALSE] \in Trees
  BY <1>1 DEF Trees
<1> QED
  BY <1>1, <1>3, <1>4 DEF Reading, Trees

\* Any other record is only noted.
LEMMA ReadOther ==
  ASSUME NEW t, Reading(t), NEW rec, rec[1] # "enter", rec[1] # "return"
  PROVE  LET u == ReadRecord(t, rec)
         IN  Reading(u) /\ u.path = t.path /\ (u.open <=> rec[1] = "invoc")
<1> DEFINE b == rec[1] = "invoc"
<1>1. Move(t, rec) = t
  BY DEF Move
<1>2. ReadRecord(t, rec) = [t EXCEPT !.open = b]
  <2> HIDE DEF b
  <2>1. ReadRecord(t, rec) = [Move(t, rec) EXCEPT !.open = rec[1] = "invoc"]
    BY DEF ReadRecord, Reading
  <2> QED
    BY <1>1, <2>1 DEF b
<1>3. b \in BOOLEAN
  OBVIOUS
<1>4. ASSUME NEW c \in BOOLEAN
      PROVE  /\ [t EXCEPT !.open = c] \in Trees
             /\ [t EXCEPT !.open = c].path = t.path
             /\ [t EXCEPT !.open = c].failed = t.failed
             /\ [t EXCEPT !.open = c].open = c
  BY DEF Reading, Trees
<1> HIDE DEF b
<1>5. /\ [t EXCEPT !.open = b] \in Trees
      /\ [t EXCEPT !.open = b].path = t.path
      /\ [t EXCEPT !.open = b].failed = t.failed
      /\ [t EXCEPT !.open = b].open = b
  BY <1>3, <1>4
<1>6. Reading([t EXCEPT !.open = b])
  BY <1>5 DEF Reading
<1> QED
  BY <1>2, <1>5, <1>6 DEF b

\* No record, one record, two and three.
LEMMA ReadNone == \A t : ReadAll(t, <<>>) = t
<1> SUFFICES ASSUME NEW t PROVE ReadAll(t, <<>>) = t
  OBVIOUS
<1>1. Len(<<>>) = 0
  OBVIOUS
<1>2. PICK f : Reads(f, t, <<>>, 0) /\ ReadAll(t, <<>>) = f[0]
  BY <1>1, ReadAllReads
<1> QED
  BY <1>2 DEF Reads

LEMMA ReadMore ==
  ASSUME NEW t, NEW recs, NEW n \in Nat, Len(recs) = n
  PROVE  \E f : Reads(f, t, recs, n) /\ ReadAll(t, recs) = f[n]
<1>1. \E f : Reads(f, t, recs, Len(recs)) /\ ReadAll(t, recs) = f[Len(recs)]
  BY ReadAllReads
<1> QED
  BY <1>1, Zenon

LEMMA ReadOne == \A t, r : ReadAll(t, <<r>>) = ReadRecord(t, r)
<1> SUFFICES ASSUME NEW t, NEW r PROVE ReadAll(t, <<r>>) = ReadRecord(t, r)
  OBVIOUS
<1> DEFINE word == <<r>>
<1>1. Len(word) = 1 /\ word[1] = r
  OBVIOUS
<1> HIDE DEF word
<1>2. PICK f : Reads(f, t, word, 1) /\ ReadAll(t, word) = f[1]
  BY <1>1, ReadMore, Zenon
<1>3. f[0] = t /\ f[1] = ReadRecord(f[0], word[1])
  BY <1>2 DEF Reads
<1> QED
  BY <1>1, <1>2, <1>3 DEF word

LEMMA ReadTwo ==
  \A t, r, s : ReadAll(t, <<r, s>>) = ReadRecord(ReadRecord(t, r), s)
<1> SUFFICES ASSUME NEW t, NEW r, NEW s
             PROVE  ReadAll(t, <<r, s>>) = ReadRecord(ReadRecord(t, r), s)
  OBVIOUS
<1> DEFINE word == <<r, s>>
<1>1. Len(word) = 2 /\ word[1] = r /\ word[2] = s
  OBVIOUS
<1> HIDE DEF word
<1>2. PICK f : Reads(f, t, word, 2) /\ ReadAll(t, word) = f[2]
  BY <1>1, ReadMore, Zenon
<1>3. f[0] = t /\ f[1] = ReadRecord(f[0], word[1]) /\ f[2] = ReadRecord(f[1], word[2])
  BY <1>2 DEF Reads
<1> QED
  BY <1>1, <1>2, <1>3 DEF word

LEMMA ReadThree ==
  \A t, r, s, u :
    ReadAll(t, <<r, s, u>>) = ReadRecord(ReadRecord(ReadRecord(t, r), s), u)
<1> SUFFICES ASSUME NEW t, NEW r, NEW s, NEW u
             PROVE  ReadAll(t, <<r, s, u>>) = ReadRecord(ReadRecord(ReadRecord(t, r), s), u)
  OBVIOUS
<1> DEFINE word == <<r, s, u>>
<1>1. Len(word) = 3 /\ word[1] = r /\ word[2] = s /\ word[3] = u
  OBVIOUS
<1> HIDE DEF word
<1>2. PICK f : Reads(f, t, word, 3) /\ ReadAll(t, word) = f[3]
  BY <1>1, ReadMore, Zenon
<1>3. /\ f[0] = t /\ f[1] = ReadRecord(f[0], word[1]) /\ f[2] = ReadRecord(f[1], word[2])
      /\ f[3] = ReadRecord(f[2], word[3])
  BY <1>2 DEF Reads
<1> QED
  BY <1>1, <1>2, <1>3 DEF word

\* Records that are neither of a call nor of a return leave the path alone, however
\* many they are.
LEMMA ReadFlat ==
  ASSUME NEW t, Reading(t), NEW recs, Len(recs) \in Nat,
         \A i \in 1..Len(recs) : recs[i][1] # "enter" /\ recs[i][1] # "return"
  PROVE  Reading(ReadAll(t, recs)) /\ ReadAll(t, recs).path = t.path
<1> DEFINE Same(u) == Reading(u) /\ u.path = t.path
<1>1. PICK N \in Nat : N = Len(recs)
  OBVIOUS
<1>2. PICK f : Reads(f, t, recs, N) /\ ReadAll(t, recs) = f[N]
  BY <1>1, ReadMore, Zenon
<1> DEFINE T == {n \in 0..N : ~Same(f[n])}
<1>3. T = {}
  <2> SUFFICES ASSUME T # {} PROVE FALSE
    OBVIOUS
  <2>1. PICK n \in T : \A m \in T : n <= m
    <3> HIDE DEF T
    <3>1. T \in SUBSET Nat
      BY DEF T
    <3> QED
      BY <3>1, Least
  <2>2. n \in 0..N /\ ~Same(f[n])
    OBVIOUS
  <2>3. n # 0
    BY <1>2, <2>2 DEF Reads
  <2>4. n - 1 \in 0..N /\ n - 1 \notin T
    BY <2>1, <2>2, <2>3
  <2>5. Same(f[n - 1])
    BY <2>4
  <2>6. n \in 1..N /\ f[n] = ReadRecord(f[n - 1], recs[n])
    BY <1>2, <2>2, <2>3 DEF Reads
  <2>7. recs[n][1] # "enter" /\ recs[n][1] # "return"
    BY <1>1, <2>6
  <2>8. Same(f[n])
    BY <2>5, <2>6, <2>7, ReadOther
  <2> QED
    BY <2>2, <2>8
<1>4. Same(f[N])
  BY <1>3
<1> QED
  BY <1>2, <1>4

-----------------------------------------------------------------------------
(* The records of a call, of a return and of everything else.               *)

\* A sequence behind one more element.
LEMMA OneMore ==
  ASSUME NEW a, NEW s, NEW u, NEW S, a \in S, s \in Seq(S), u \in Seq(S),
         Len(u) = Len(s) + 1, u[1] = a, \A i \in 1..Len(s) : u[i + 1] = s[i]
  PROVE  <<a>> \o s = u
<1> DEFINE o == <<a>>
<1>1. o \in Seq(S) /\ Len(o) = 1 /\ o[1] = a
  OBVIOUS
<1> HIDE DEF o
<1>2. /\ o \o s \in Seq(S) /\ Len(o \o s) = 1 + Len(s)
      /\ \A i \in 1..(1 + Len(s)) : (o \o s)[i] = IF i <= 1 THEN o[i] ELSE s[i - 1]
  <2>1. /\ o \o s \in Seq(S) /\ Len(o \o s) = Len(o) + Len(s)
        /\ \A i \in 1..(Len(o) + Len(s)) : (o \o s)[i] = IF i <= Len(o) THEN o[i] ELSE s[i - Len(o)]
    BY ONLY <1>1, s \in Seq(S), ConcatProperties
  <2> QED
    BY <1>1, <2>1
<1>3. Len(s) \in Nat
  OBVIOUS
<1>4. ASSUME NEW i \in 1..(1 + Len(s)) PROVE (o \o s)[i] = u[i]
  <2>1. CASE i = 1
    BY <1>1, <1>2, <2>1
  <2>2. CASE i # 1
    <3>1. i - 1 \in 1..Len(s)
      BY <1>3, <2>2
    <3>2. u[(i - 1) + 1] = s[i - 1]
      BY <3>1
    <3> QED
      BY <1>2, <1>3, <2>2, <3>1, <3>2
  <2> QED
    BY <2>1, <2>2
<1>5. o \o s = u
  BY <1>2, <1>3, <1>4, SeqEqual
<1> QED
  BY <1>5 DEF o

LEMMA Words ==
  \A a, b, c : /\ <<a>> \o <<>> = <<a>>
              /\ <<a>> \o <<b>> = <<a, b>>
              /\ <<a>> \o <<b, c>> = <<a, b, c>>
<1> SUFFICES ASSUME NEW a, NEW b, NEW c
             PROVE  /\ <<a>> \o <<>> = <<a>>
                    /\ <<a>> \o <<b>> = <<a, b>>
                    /\ <<a>> \o <<b, c>> = <<a, b, c>>
  OBVIOUS
<1> DEFINE S == {a, b, c}
<1>1. /\ a \in S /\ <<>> \in Seq(S) /\ <<a>> \in Seq(S) /\ <<b>> \in Seq(S) /\ <<a, b>> \in Seq(S)
      /\ <<b, c>> \in Seq(S) /\ <<a, b, c>> \in Seq(S)
  OBVIOUS
<1> HIDE DEF S
<1>2. <<a>> \o <<>> = <<a>>
  BY <1>1
<1>3. <<a>> \o <<b>> = <<a, b>>
  <2>1. Len(<<a, b>>) = Len(<<b>>) + 1 /\ <<a, b>>[1] = a
        /\ \A i \in 1..Len(<<b>>) : <<a, b>>[i + 1] = <<b>>[i]
    OBVIOUS
  <2> QED
    BY <1>1, <2>1, OneMore, ZenonT(40)
<1>4. <<a>> \o <<b, c>> = <<a, b, c>>
  <2>1. Len(<<a, b, c>>) = Len(<<b, c>>) + 1 /\ <<a, b, c>>[1] = a
        /\ \A i \in 1..Len(<<b, c>>) : <<a, b, c>>[i + 1] = <<b, c>>[i]
    <3>1. \A i \in 1..2 : i = 1 \/ i = 2
      OBVIOUS
    <3> QED
      BY <3>1
  <2> DEFINE s == <<b, c>>
             u == <<a, b, c>>
  <2>2. s \in Seq(S) /\ u \in Seq(S) /\ a \in S
    BY <1>1
  <2>3. Len(u) = Len(s) + 1 /\ u[1] = a /\ \A i \in 1..Len(s) : u[i + 1] = s[i]
    BY <2>1
  <2> HIDE DEF s, u
  <2>4. <<a>> \o s = u
    BY <2>2, <2>3, OneMore
  <2> QED
    BY <2>4 DEF s, u
<1> QED
  BY <1>2, <1>3, <1>4

\* A call made in silence leaves the tree alone; any other descends.
LEMMA CallReads ==
  ASSUME Reading(tree), NEW f \in Funcs,
         out' = PushRecords(f) \/ out' = Guarded(<<<<"invoc">>>>) \o PushRecords(f),
         tree' = ReadAll(tree, out')
  PROVE  /\ Silent => tree' = tree
         /\ ~Silent => Reading(tree') /\ tree'.path = Append(tree.path, NameOf[f])
<1> DEFINE i == <<"invoc">>
           e == <<"enter", f>>
           l == <<"locked">>
<1>1. CASE Silent
  <2>1. PushRecords(f) = <<>> /\ Guarded(<<i>>) = <<>>
    BY <1>1 DEF PushRecords, Guarded, Silent
  <2>2. <<>> \o <<>> = <<>>
    OBVIOUS
  <2>3. out' = <<>>
    BY <2>1, <2>2
  <2> QED
    BY <1>1, <2>3, ReadNone
<1>2. CASE ~Silent
  <2>1. Guarded(<<i>>) = <<i>>
    BY <1>2 DEF Guarded, Silent
  <2>2. PushRecords(f) = <<e>> \/ PushRecords(f) = <<e, l>>
    <3>1. <<e>> \o <<l>> = <<e, l>> /\ <<e>> \o <<>> = <<e>>
      <4> HIDE DEF e, l
      <4> QED
        BY ONLY Words, Zenon
    <3>2. PushRecords(f) = <<e>> \o (IF Locks(f) THEN <<l>> ELSE <<>>)
      BY <1>2 DEF PushRecords, Guarded, Silent
    <3> QED
      BY <3>1, <3>2
  <2>3. out' \in {<<e>>, <<e, l>>, <<i, e>>, <<i, e, l>>}
    <3>1. <<i>> \o <<e>> = <<i, e>> /\ <<i>> \o <<e, l>> = <<i, e, l>>
      <4> HIDE DEF i, e, l
      <4> QED
        BY ONLY Words, Zenon
    <3> HIDE DEF i, e, l
    <3> QED
      BY <2>1, <2>2, <3>1 DEF i
  <2>4. /\ i[1] # "enter" /\ i[1] # "return"
        /\ l[1] # "enter" /\ l[1] # "return"
    OBVIOUS
  <2>5. \A t : Reading(t) => /\ Reading(ReadRecord(t, e))
                             /\ ReadRecord(t, e).path = Append(t.path, NameOf[f])
    BY ReadEnter
  <2>6. \A t : Reading(t) => /\ Reading(ReadRecord(t, i)) /\ ReadRecord(t, i).path = t.path
                             /\ Reading(ReadRecord(t, l)) /\ ReadRecord(t, l).path = t.path
    <3> HIDE DEF i, l
    <3> QED
      BY <2>4, ReadOther
  <2> HIDE DEF i, e, l
  <2>7. CASE out' = <<e>>
    BY <1>2, <2>5, <2>7, ReadOne
  <2>8. CASE out' = <<e, l>>
    BY <1>2, <2>5, <2>6, <2>8, ReadTwo
  <2>9. CASE out' = <<i, e>>
    <3>1. tree' = ReadRecord(ReadRecord(tree, i), e)
      BY <2>9, ReadTwo
    <3>2. Reading(ReadRecord(tree, i)) /\ ReadRecord(tree, i).path = tree.path
      BY <2>6
    <3> QED
      BY <1>2, <2>5, <3>1, <3>2
  <2>10. CASE out' = <<i, e, l>>
    <3>1. tree' = ReadRecord(ReadRecord(ReadRecord(tree, i), e), l)
      BY <2>10, ReadThree
    <3>2. Reading(ReadRecord(tree, i)) /\ ReadRecord(tree, i).path = tree.path
      BY <2>6
    <3>3. /\ Reading(ReadRecord(ReadRecord(tree, i), e))
          /\ ReadRecord(ReadRecord(tree, i), e).path = Append(tree.path, NameOf[f])
      BY <2>5, <3>2
    <3> QED
      BY <1>2, <2>6, <3>1, <3>3
  <2> QED
    BY <2>3, <2>7, <2>8, <2>9, <2>10
<1> QED
  BY <1>1, <1>2

\* Frame i stays as voiced as it was when the frames below it stay, and the lock
\* stays or moves above it.
LEMMA VoicedKept ==
  ASSUME NEW n \in Nat, NEW i \in 1..n,
         \A j \in 1..(n - 1) : frames'[j] = frames[j],
         recurLock.idx \in Nat, recurLock'.idx \in Nat,
         \/ recurLock' = recurLock
         \/ /\ recurLock'.value => recurLock'.idx + 1 >= n
            /\ recurLock.value => recurLock.idx + 1 >= n
  PROVE  Voiced(i)' <=> Voiced(i)
<1>1. \A j \in 1..(i - 1) : Exceeds(frames[j])' <=> Exceeds(frames[j])
  BY DEF Exceeds
<1>2. (recurLock'.value /\ recurLock'.idx + 1 < i) <=> (recurLock.value /\ recurLock.idx + 1 < i)
  OBVIOUS
<1> QED
  BY <1>1, <1>2 DEF Voiced

\* A return ends frame n of the runtime's stack too. It writes its record exactly if
\* the frame was entered voiced, and it releases the lock if it was taken there.
LEMMA ReturnWrites ==
  ASSUME Known, Return, NEW n, n = Len(frames)
  PROVE  /\ n \in Nat \ {0} /\ Len(frames') = n - 1
         /\ \A j \in 1..(n - 1) : frames'[j] = frames[j]
         /\ \/ recurLock' = recurLock
            \/ ~recurLock'.value /\ recurLock.value /\ recurLock.idx + 1 = n
         /\ n = 1 => Voiced(n)
         /\ ~Voiced(n) => out' = <<>>
         /\ Voiced(n) => \E r : r[1] = "return" /\ out' \in {<<r>>, <<<<"released">>, r>>}
<1> USE DEF Known
<1>1. /\ frames \in Seq(Frame) /\ n \in Nat \ {0}
      /\ Len(funcStack) = n /\ \A i \in 1..n : funcStack[i] = frames[i].func
      /\ frames' = SubSeq(frames, 1, n - 1) /\ Top.loops = <<>> /\ Top = frames[n]
  BY Stacks DEF Return, StackIsCallStack, Top
<1>2. Len(frames') = n - 1 /\ \A j \in 1..(n - 1) : frames'[j] = frames[j]
  BY <1>1, PrefixOf
<1>3. n \in DOMAIN funcStack /\ funcStack[n] = Top.func
  BY <1>1, Stacks
<1>4. PICK k \in DOMAIN funcStack : IsLastOccurrence(Top.func, k) /\ PopTo(k)
  BY <1>3 DEF Return, CheckRecur
<1>5. k = n
  BY <1>1, <1>3, <1>4, Stacks DEF IsLastOccurrence
<1>6. recurLock.idx \in Nat
  BY DEF TypeOK
<1>7. Releases(n) <=> recurLock.value /\ recurLock.idx + 1 = n
  <2>1. Releases(n) <=> LockMatches(n)
    BY <1>1 DEF Releases
  <2> QED
    BY <1>1, <1>6, <2>1, SMTT(20) DEF LockMatches, LockOnOutermostRepeat
<1>8. recurLock.value => recurLock.idx + 1 <= n /\ recurLock.idx # 0
  BY <1>1, <1>6 DEF LockOnOutermostRepeat
<1>9. ExceedLoopLimit <=> \E j \in 1..(n - 1) : Exceeds(frames[j])
  <2>1. ExceedLoopLimit <=> \E j \in 1..n : Exceeds(frames[j])
    BY <1>1, SMTT(20) DEF LoopGuardExact, Exceeds
  <2>2. ~Exceeds(frames[n])
    BY <1>1 DEF Exceeds
  <2>3. \A j \in 1..n : j = n \/ j \in 1..(n - 1)
    BY <1>1
  <2>4. \A j \in 1..(n - 1) : j \in 1..n
    BY <1>1
  <2> QED
    BY <2>1, <2>2, <2>3, <2>4
<1>10. Voiced(n) <=> ~ExceedLoopLimit /\ (recurLock.value => recurLock.idx + 1 = n)
  BY <1>1, <1>6, <1>8, <1>9 DEF Voiced
<1>11. n = 1 => Voiced(n)
  BY <1>6, <1>8, <1>9, <1>10
<1>12. \/ recurLock' = recurLock
       \/ ~recurLock'.value /\ recurLock.value /\ recurLock.idx + 1 = n
  BY <1>4, <1>5, <1>7 DEF PopTo, Unlocked
<1> DEFINE r == <<"return", funcStack[n]>>
           Recs(top) == [j \in 1..(top - n + 1) |->
                           LET i == top - j + 1
                           IN  <<IF i = n THEN "return" ELSE "unwind", funcStack[i]>>]
<1>13. out' = IF ExceedLoopLimit THEN <<>>
              ELSE (IF Releases(n) THEN <<<<"released">>>> ELSE <<>>) \o Recs(FirstVoiced(n))
  BY <1>4, <1>5 DEF PopTo, PopRecords
<1>14. Recs(n) = <<r>>
  <2>1. n - n + 1 = 1 /\ \A j \in 1..1 : n - j + 1 = n
    BY <1>1
  <2>2. Recs(n) = [j \in 1..1 |-> r]
    BY <2>1
  <2> HIDE DEF r
  <2> QED
    BY <2>2
<1>15. Recs(n - 1) = <<>>
  BY <1>1
<1>16. r[1] = "return"
  OBVIOUS
<1> HIDE DEF r, Recs
<1>17. ASSUME ~Voiced(n) PROVE out' = <<>>
  <2>1. CASE ExceedLoopLimit
    BY <1>13, <2>1
  <2>2. CASE ~ExceedLoopLimit
    <3>1. ~Releases(n) /\ recurLock.value
      BY <1>7, <1>10, <1>17, <2>2
    <3>2. FirstVoiced(n) = n - 1
      BY <3>1 DEF FirstVoiced
    <3>3. out' = <<>> \o <<>>
      BY <1>13, <1>15, <2>2, <3>1, <3>2
    <3> QED
      BY <3>3
  <2> QED
    BY <2>1, <2>2
<1>18. ASSUME Voiced(n) PROVE out' \in {<<r>>, <<<<"released">>, r>>}
  <2>1. ~ExceedLoopLimit /\ (recurLock.value => Releases(n))
    BY <1>7, <1>10, <1>18
  <2>2. FirstVoiced(n) = n
    BY <1>1, <1>7, <2>1 DEF FirstVoiced
  <2>3. out' = (IF Releases(n) THEN <<<<"released">>>> ELSE <<>>) \o <<r>>
    BY <1>13, <1>14, <2>1, <2>2
  <2>4. <<<<"released">>>> \o <<r>> = <<<<"released">>, r>>
    BY ONLY Words, Zenon
  <2>5. <<>> \o <<r>> = <<r>>
    OBVIOUS
  <2> QED
    BY <2>3, <2>4, <2>5
<1> QED
  BY <1>1, <1>2, <1>11, <1>12, <1>16, <1>17, <1>18

\* The records that are neither of a call nor of a return.
Kinds == {"invoc", "jump", "thread", "loop hit", "loop exceed", "out of loop", "no start"}
Notes == {<<k>> : k \in Kinds} \cup {<<k, l>> : k \in Kinds, l \in Loops}

LEMMA OthersWrite ==
  ASSUME \/ \E l \in Loops : HeaderHit(l)
         \/ \E l \in Loops : LoopExit(l)
         \/ Record
         \/ ThreadRec
  PROVE  /\ Len(out') \in Nat
         /\ \A i \in 1..Len(out') : out'[i][1] # "enter" /\ out'[i][1] # "return"
<1>1. \A k \in Kinds : <<k>> \in Notes /\ \A l \in Loops : <<k, l>> \in Notes
  BY DEF Notes
<1>2. \A r \in Notes : r[1] # "enter" /\ r[1] # "return"
  <2>1. \A k \in Kinds : k # "enter" /\ k # "return"
    BY DEF Kinds
  <2>2. ASSUME NEW r \in Notes PROVE r[1] \in Kinds
    <3>1. CASE \E k \in Kinds : r = <<k>>
      BY <3>1
    <3>2. CASE \E k \in Kinds, l \in Loops : r = <<k, l>>
      BY <3>2
    <3> QED
      BY <2>2, <3>1, <3>2 DEF Notes
  <2> QED
    BY <2>1, <2>2
<1>3. \A r \in Notes : <<r>> \in Seq(Notes)
  OBVIOUS
<1>4. <<>> \in Seq(Notes)
  OBVIOUS
<1>5. \A s, u \in Seq(Notes) : s \o u \in Seq(Notes)
  OBVIOUS
<1>6. ASSUME NEW l \in Loops, HeaderHit(l)
      PROVE  out' \in Seq(Notes)
  <2>1. <<"loop hit", l>> \in Notes /\ <<"loop exceed", l>> \in Notes
    BY <1>1 DEF Kinds
  <2>2. <<<<"loop hit", l>>>> \in Seq(Notes) /\ <<<<"loop exceed", l>>>> \in Seq(Notes)
    BY <1>3, <2>1
  <2>3. out' \in {<<>>, <<<<"loop hit", l>>>>, <<<<"loop exceed", l>>>>}
    BY <1>6 DEF HeaderHit, LoopEntry, PushLoop, CountLoop, RecurGuarded
  <2> QED
    BY <1>4, <2>2, <2>3
<1>7. ASSUME NEW l \in Loops, LoopExit(l)
      PROVE  out' \in Seq(Notes)
  <2>1. <<"out of loop", l>> \in Notes /\ <<"no start", l>> \in Notes
    BY <1>1 DEF Kinds
  <2>2. <<<<"out of loop", l>>>> \in Seq(Notes)
    BY <1>3, <2>1
  <2>3. \A extra \in Nat : [i \in 1..extra |-> <<"no start", l>>] \in Seq(Notes)
    <3> DEFINE r == <<"no start", l>>
    <3>1. r \in Notes
      BY <2>1
    <3> HIDE DEF r
    <3>2. \A extra \in Nat : [i \in 1..extra |-> r] \in Seq(Notes)
      BY <3>1
    <3> QED
      BY <3>2 DEF r
  <2>4. ExitEdges[l] \in Nat /\ ExitEdges[l] - 1 \in Nat
    BY LoopAssumption
  <2>5. PICK s, u : /\ out' = RecurGuarded(s \o u)
                    /\ s \in {<<>>, <<<<"out of loop", l>>>>}
                    /\ \/ u = <<>>
                       \/ \E extra \in Nat : u = [i \in 1..extra |-> <<"no start", l>>]
    <3>1. LoopEnd(l, ExitEdges[l])
      BY <1>7 DEF LoopExit
    <3> DEFINE pops  == loopStack # <<>> /\ LoopTop.loop = l
               rest  == IF pops THEN SubSeq(loopStack, 1, Len(loopStack) - 1) ELSE loopStack
               quiet == rest # <<>> /\ rest[Len(rest)].count > LOOP_LIMIT
               extra == IF pops THEN ExitEdges[l] - 1 ELSE ExitEdges[l]
               s == IF pops THEN <<<<"out of loop", l>>>> ELSE <<>>
               u == IF quiet THEN <<>> ELSE [i \in 1..extra |-> <<"no start", l>>]
    <3>2. out' = RecurGuarded(s \o u)
      BY <3>1 DEF LoopEnd
    <3>3. extra \in Nat
      BY <2>4
    <3> HIDE DEF pops, quiet, extra
    <3>4. s \in {<<>>, <<<<"out of loop", l>>>>}
      OBVIOUS
    <3>5. u = <<>> \/ \E e \in Nat : u = [i \in 1..e |-> <<"no start", l>>]
      BY <3>3
    <3> HIDE DEF s, u
    <3> QED
      BY <3>2, <3>4, <3>5
  <2>6. s \in Seq(Notes) /\ u \in Seq(Notes)
    BY <1>4, <2>2, <2>3, <2>5
  <2>7. out' = <<>> \/ out' = s \o u
    BY <2>5 DEF RecurGuarded
  <2> QED
    BY <1>4, <1>5, <2>6, <2>7
<1>8. ASSUME Record \/ ThreadRec
      PROVE  out' \in Seq(Notes)
  <2>1. \A k \in Kinds : <<<<k>>>> \in Seq(Notes)
    BY <1>1, <1>3
  <2>2. \A k \in Kinds : Guarded(<<<<k>>>>) \in Seq(Notes)
    BY <1>4, <2>1 DEF Guarded
  <2>3. CASE Record
    BY <2>2, <2>3 DEF Record, Kinds
  <2>4. CASE ThreadRec
    <3>1. "invoc" \in Kinds /\ "thread" \in Kinds
      BY DEF Kinds
    <3>2. Guarded(<<<<"invoc">>>>) \in Seq(Notes) /\ <<<<"thread">>>> \in Seq(Notes)
      BY <2>1, <2>2, <3>1
    <3>3. out' = Guarded(<<<<"invoc">>>>) \o <<<<"thread">>>>
      BY <2>4 DEF ThreadRec
    <3> QED
      BY <1>5, <3>2, <3>3
  <2> QED
    BY <1>8, <2>3, <2>4
<1>9. out' \in Seq(Notes)
  BY <1>6, <1>7, <1>8
<1>10. Len(out') \in Nat /\ \A i \in 1..Len(out') : out'[i] \in Notes
  BY <1>9
<1> QED
  BY <1>2, <1>10

-----------------------------------------------------------------------------
(* The tree follows the calls.                                              *)

\* While the guards are not silent, every frame was entered voiced.
LEMMA AllVoiced ==
  ASSUME Known
  PROVE  /\ Silent <=> ~Voiced(Len(frames) + 1)
         /\ \A i \in 1..Len(frames) : Voiced(i + 1) => Voiced(i)
<1> USE DEF Known
<1> DEFINE n == Len(frames)
<1>1. n \in Nat /\ Len(funcStack) = n /\ recurLock.idx \in Nat
  BY Stacks DEF StackIsCallStack, TypeOK
<1>2. recurLock.value => recurLock.idx + 1 <= n
  BY <1>1 DEF LockOnOutermostRepeat
<1>3. ExceedLoopLimit <=> \E j \in 1..n : Exceeds(frames[j])
  <2>1. DOMAIN frames = 1..n
    BY Stacks
  <2> QED
    BY <2>1 DEF LoopGuardExact, Exceeds
<1>4. Silent <=> ~Voiced(n + 1)
  <2>1. recurLock.value <=> recurLock.value /\ recurLock.idx + 1 < n + 1
    BY <1>1, <1>2
  <2>2. (n + 1) - 1 = n
    BY <1>1
  <2> QED
    BY <1>3, <2>1, <2>2 DEF Silent, Voiced
<1>5. ASSUME NEW i \in 1..n, Voiced(i + 1)
      PROVE  Voiced(i)
  <2>1. \A j \in 1..(i - 1) : j \in 1..((i + 1) - 1)
    BY <1>1
  <2> QED
    BY <1>1, <1>5, <2>1 DEF Voiced
<1> QED
  BY <1>4, <1>5

\* So the path then names every frame.
LEMMA InStepUnlessSilent ==
  ASSUME Known, Reading(tree), Followed, ~Silent
  PROVE  Len(tree.path) = Len(frames)
<1> DEFINE n == Len(frames)
<1>1. n \in Nat /\ Len(tree.path) \in Nat
  BY Stacks DEF Known, Reading, Trees
<1>2. CASE n = 0
  BY <1>1, <1>2 DEF Followed
<1>3. CASE n # 0
  <2>1. n \in 1..n /\ Voiced(n + 1)
    BY <1>1, <1>3, AllVoiced
  <2>2. Voiced(n)
    BY <2>1, AllVoiced
  <2> QED
    BY <1>1, <2>1, <2>2 DEF Followed
<1> QED
  BY <1>2, <1>3

\* A call.
LEMMA CallFollowed ==
  ASSUME Known, Known', TInv, NEW f \in Funcs, Enter(f),
         out' = PushRecords(f) \/ out' = Guarded(<<<<"invoc">>>>) \o PushRecords(f),
         tree' = ReadAll(tree, out')
  PROVE  /\ TInv'
         /\ \/ tree'.path = tree.path
            \/ Len(tree.path) = Len(frames) /\ tree'.path = Append(tree.path, NameOf[f])
<1> DEFINE n == Len(frames)
<1>1. /\ n \in Nat /\ Len(funcStack) = n /\ Len(tree.path) \in Nat /\ tree.path \in Seq(Names)
      /\ recurLock.idx \in Nat /\ recurLock'.idx \in Nat /\ NameOf[f] \in Names
  BY Stacks, NameAssumption DEF Known, StackIsCallStack, TypeOK, TInv, Reading, Trees
<1>2. /\ Len(frames') = n + 1 /\ frames'[n + 1].func = f
      /\ frames'[n + 1].loops = <<>>
      /\ \A j \in 1..n : frames'[j] = frames[j]
  BY Stacks DEF Known, Enter
<1>3. \/ recurLock' = recurLock
      \/ recurLock'.value /\ recurLock'.idx = n /\ ~recurLock.value
  BY <1>1 DEF Enter, PushFunc, Locks
<1>4. ASSUME NEW i \in 1..n PROVE Voiced(i)' <=> Voiced(i)
  <2>1. n + 1 \in Nat /\ i \in 1..(n + 1) /\ (n + 1) - 1 = n
    BY <1>1
  <2>2. \/ recurLock' = recurLock
        \/ /\ recurLock'.value => recurLock'.idx + 1 >= n + 1
           /\ recurLock.value => recurLock.idx + 1 >= n + 1
    BY <1>1, <1>3
  <2> QED
    BY <1>1, <1>2, <2>1, <2>2, VoicedKept
<1>5. \A m \in Nat : m = n + 1 => (Voiced(m)' <=> ~Silent)
  <2> SUFFICES ASSUME NEW m \in Nat, m = n + 1 PROVE Voiced(m)' <=> Voiced(m)
    BY AllVoiced
  <2>1. m - 1 = n
    BY <1>1
  <2>2. \A j \in 1..(m - 1) : Exceeds(frames[j])' <=> Exceeds(frames[j])
    BY <1>2, <2>1 DEF Exceeds
  <2>3. (recurLock'.value /\ recurLock'.idx + 1 < m) <=> (recurLock.value /\ recurLock.idx + 1 < m)
    BY <1>1, <1>3
  <2> QED
    BY <2>2, <2>3 DEF Voiced
<1>6. frames' # <<>>
  BY <1>1, <1>2
<1>7. CASE Silent
  <2>1. tree' = tree
    BY <1>7, CallReads DEF TInv
  <2>2. \A i \in 1..(n + 1) : i <= Len(tree.path) <=> Voiced(i)'
    <3> SUFFICES ASSUME NEW i \in 1..(n + 1) PROVE i <= Len(tree.path) <=> Voiced(i)'
      OBVIOUS
    <3>1. CASE i = n + 1
      BY <1>1, <1>5, <1>7, <3>1 DEF TInv, Followed
    <3>2. CASE i \in 1..n
      BY <1>4, <3>2 DEF TInv, Followed
    <3> QED
      BY <1>1, <3>1, <3>2
  <2>3. Len(tree.path) <= n /\ \A i \in 1..Len(tree.path) : tree.path[i] = NameOf[frames'[i].func]
    BY <1>1, <1>2 DEF TInv, Followed
  <2> QED
    BY <1>1, <1>2, <1>6, <2>1, <2>2, <2>3 DEF TInv, Followed
<1>8. CASE ~Silent
  <2>1. Reading(tree') /\ tree'.path = Append(tree.path, NameOf[f])
    BY <1>8, CallReads DEF TInv
  <2>2. Len(tree.path) = n
    BY <1>8, InStepUnlessSilent DEF TInv
  <2>3. /\ Len(tree'.path) = n + 1 /\ tree'.path[n + 1] = NameOf[f]
        /\ \A i \in 1..n : tree'.path[i] = tree.path[i]
    BY <1>1, <2>1, <2>2
  <2>4. \A i \in 1..(n + 1) : tree'.path[i] = NameOf[frames'[i].func] /\ Voiced(i)'
    <3> SUFFICES ASSUME NEW i \in 1..(n + 1)
                 PROVE  tree'.path[i] = NameOf[frames'[i].func] /\ Voiced(i)'
      OBVIOUS
    <3>1. CASE i = n + 1
      BY <1>1, <1>2, <1>5, <1>8, <2>3, <3>1
    <3>2. CASE i \in 1..n
      BY <1>2, <1>4, <2>2, <2>3, <3>2 DEF TInv, Followed
    <3> QED
      BY <1>1, <3>1, <3>2
  <2> QED
    BY <1>1, <1>2, <1>6, <2>1, <2>3, <2>4 DEF TInv, Followed
<1> QED
  BY <1>7, <1>8

\* A return.
LEMMA ReturnFollowed ==
  ASSUME Known, Known', TInv, Return, tree' = ReadAll(tree, out')
  PROVE  /\ TInv'
         /\ \/ Len(tree.path) < Len(frames) /\ tree'.path = tree.path
            \/ Len(tree.path) = Len(frames) /\ tree'.path = Front(tree.path)
<1>1. PICK n : n = Len(frames)
  OBVIOUS
<1>2. /\ n \in Nat \ {0} /\ Len(frames') = n - 1
      /\ \A j \in 1..(n - 1) : frames'[j] = frames[j]
      /\ \/ recurLock' = recurLock
         \/ ~recurLock'.value /\ recurLock.value /\ recurLock.idx + 1 = n
      /\ n = 1 => Voiced(n)
      /\ ~Voiced(n) => out' = <<>>
      /\ Voiced(n) => \E r : r[1] = "return" /\ out' \in {<<r>>, <<<<"released">>, r>>}
  BY <1>1, ReturnWrites
<1>3. /\ Len(tree.path) \in Nat /\ tree.path \in Seq(Names)
      /\ recurLock.idx \in Nat /\ recurLock'.idx \in Nat
  BY DEF Known, TypeOK, TInv, Reading, Trees
<1>4. ASSUME NEW i \in 1..(n - 1) PROVE Voiced(i)' <=> Voiced(i)
  <2>1. n \in Nat /\ i \in 1..n
    BY <1>2
  <2>2. \/ recurLock' = recurLock
        \/ /\ recurLock'.value => recurLock'.idx + 1 >= n
           /\ recurLock.value => recurLock.idx + 1 >= n
    BY <1>2, <1>3
  <2> QED
    BY <1>2, <1>3, <2>1, <2>2, VoicedKept
<1>5. CASE ~Voiced(n)
  <2>1. tree' = tree
    BY <1>2, <1>5, ReadNone
  <2>2. Len(tree.path) < n
    BY <1>1, <1>2, <1>3, <1>5 DEF TInv, Followed
  <2>3. frames' # <<>>
    BY <1>2, <1>5
  <2>4. \A i \in 1..(n - 1) : i <= Len(tree.path) <=> Voiced(i)'
    BY <1>1, <1>2, <1>4 DEF TInv, Followed
  <2>5. \A i \in 1..Len(tree.path) : tree.path[i] = NameOf[frames'[i].func]
    BY <1>2, <1>3, <2>2 DEF TInv, Followed
  <2> QED
    BY <1>1, <1>2, <1>3, <2>1, <2>2, <2>3, <2>4, <2>5 DEF TInv, Followed
<1>6. CASE Voiced(n)
  <2>1. Len(tree.path) = n
    BY <1>1, <1>2, <1>3, <1>6 DEF TInv, Followed
  <2>2. PICK r : r[1] = "return" /\ out' \in {<<r>>, <<<<"released">>, r>>}
    BY <1>2, <1>6
  <2>3. tree.path # <<>>
    BY <1>2, <2>1
  <2>4. Reading(tree') /\ tree'.path = Front(tree.path) /\ ~tree'.open
    <3>1. CASE out' = <<r>>
      <4>1. tree' = ReadRecord(tree, r)
        BY <3>1, ReadOne
      <4> QED
        BY <2>2, <2>3, <4>1, ReadReturn DEF TInv
    <3>2. CASE out' = <<<<"released">>, r>>
      <4> DEFINE s == <<"released">>
      <4>1. s[1] # "enter" /\ s[1] # "return" /\ out' = <<s, r>>
        BY <3>2
      <4> HIDE DEF s
      <4>2. tree' = ReadRecord(ReadRecord(tree, s), r)
        BY <4>1, ReadTwo
      <4>3. Reading(ReadRecord(tree, s)) /\ ReadRecord(tree, s).path = tree.path
        BY <4>1, ReadOther DEF TInv
      <4> QED
        BY <2>2, <2>3, <4>2, <4>3, ReadReturn
    <3> QED
      BY <2>2, <3>1, <3>2
  <2>5. Len(tree'.path) = n - 1 /\ \A i \in 1..(n - 1) : tree'.path[i] = tree.path[i]
    BY <1>2, <1>3, <2>1, <2>4 DEF Front
  <2>6. \A i \in 1..(n - 1) : tree'.path[i] = NameOf[frames'[i].func]
    BY <1>2, <1>3, <2>1, <2>5 DEF TInv, Followed
  <2>7. \A i \in 1..(n - 1) : Voiced(i)'
    BY <1>1, <1>2, <1>4, <2>1 DEF TInv, Followed
  <2> QED
    BY <1>1, <1>2, <2>1, <2>4, <2>5, <2>6, <2>7 DEF TInv, Followed
<1> QED
  BY <1>5, <1>6

\* A step that enters and leaves no function.
LEMMA OthersFollowed ==
  ASSUME Known, Known', TInv,
         \/ \E l \in Loops : HeaderHit(l)
         \/ \E l \in Loops : LoopExit(l)
         \/ Record
         \/ ThreadRec,
         tree' = ReadAll(tree, out')
  PROVE  /\ TInv' /\ tree'.path = tree.path
         /\ Len(frames') = Len(frames)
         /\ \A i \in 1..Len(frames) : frames'[i].func = frames[i].func
<1>1. PICK n : n = Len(frames)
  OBVIOUS
<1>2. n \in Nat \ {0} /\ frames \in Seq(Frame) /\ Len(tree.path) \in Nat /\ recurLock.idx \in Nat
  <2>1. frames # <<>>
    BY DEF HeaderHit, LoopExit, Record, ThreadRec
  <2>2. n \in Nat /\ frames \in Seq(Frame)
    BY <1>1, Stacks DEF Known
  <2>3. Len(tree.path) \in Nat /\ recurLock.idx \in Nat
    BY DEF Known, TypeOK, TInv, Reading, Trees
  <2> QED
    BY <1>1, <2>1, <2>2, <2>3
<1>3. UNCHANGED recurLock
  BY DEF HeaderHit, LoopExit, Record, ThreadRec
<1>4. /\ Len(frames') = n
      /\ \A i \in 1..n : frames'[i].func = frames[i].func
      /\ \A i \in 1..(n - 1) : frames'[i] = frames[i]
  <2>1. CASE UNCHANGED frames
    BY <1>1, <2>1
  <2>2. ASSUME NEW ls \in Seq(Hits), frames' = SetTopLoops(ls)
        PROVE  /\ Len(frames') = n
               /\ \A i \in 1..n : frames'[i].func = frames[i].func
               /\ \A i \in 1..(n - 1) : frames'[i] = frames[i]
    <3>1. frames # <<>> /\ TypeOK
      BY <1>1, <1>2 DEF Known
    <3> QED
      BY <1>1, <1>2, <2>2, <3>1, InnerActivations
  <2>3. ASSUME NEW l \in Loops, HeaderHit(l) \/ LoopExit(l)
        PROVE  (\E ls \in Seq(Hits) : frames' = SetTopLoops(ls)) \/ UNCHANGED frames
    <3>1. Top.loops \in Seq(Hits)
      BY <1>1, <1>2, Activations DEF Known, Top
    <3>2. Top.loops = <<>> => InnermostLoop # l
      BY NamesAssumption DEF InnermostLoop
    <3>3. Append(Top.loops, [loop |-> l, hits |-> 1]) \in Seq(Hits)
      BY <3>1 DEF Hits
    <3>4. ASSUME Top.loops # <<>>
          PROVE  /\ SubSeq(Top.loops, 1, Len(Top.loops) - 1) \in Seq(Hits)
                 /\ [Top.loops EXCEPT ![Len(Top.loops)].hits = @ + 1] \in Seq(Hits)
      <4> DEFINE last == Top.loops[Len(Top.loops)]
                 more == [last EXCEPT !.hits = last.hits + 1]
      <4>1. SubSeq(Top.loops, 1, Len(Top.loops) - 1) \in Seq(Hits)
        BY <3>1, <3>4
      <4>2. last \in Hits
        BY <3>1, <3>4
      <4>3. more \in Hits
        BY <4>2 DEF Hits
      <4>4. [Top.loops EXCEPT ![Len(Top.loops)].hits = @ + 1]
              = [Top.loops EXCEPT ![Len(Top.loops)] = more]
        OBVIOUS
      <4> QED
        BY <3>1, <3>4, <4>1, <4>3, <4>4, ReplaceLast
    <3>5. CASE HeaderHit(l)
      BY <3>2, <3>3, <3>4, <3>5 DEF HeaderHit
    <3>6. CASE LoopExit(l)
      BY <3>2, <3>4, <3>6 DEF LoopExit
    <3> QED
      BY <2>3, <3>5, <3>6
  <2>4. ASSUME Record \/ ThreadRec PROVE UNCHANGED frames
    BY <2>4 DEF Record, ThreadRec
  <2> QED
    BY <2>1, <2>2, <2>3, <2>4
<1>5. ASSUME NEW i \in 1..n PROVE Voiced(i)' <=> Voiced(i)
  BY <1>2, <1>3, <1>4, VoicedKept
<1>6. Reading(tree') /\ tree'.path = tree.path
  <2>1. Len(out') \in Nat /\ \A i \in 1..Len(out') : out'[i][1] # "enter" /\ out'[i][1] # "return"
    BY OthersWrite
  <2> QED
    BY <2>1, ReadFlat DEF TInv
<1>7. frames' # <<>>
  BY <1>2, <1>4
<1>8. \A i \in 1..Len(tree.path) : tree.path[i] = NameOf[frames'[i].func]
  BY <1>1, <1>2, <1>4 DEF TInv, Followed
<1> QED
  BY <1>1, <1>2, <1>4, <1>5, <1>6, <1>7, <1>8 DEF TInv, Followed

LEMMA TreeStep ==
  ASSUME ~Abnormal, Known, Known', TInv, [TreeNext]_tvars
  PROVE  TInv'
<1>1. ASSUME NEW f \in Funcs, Start(f) \/ Call(f), tree' = ReadAll(tree, out')
      PROVE  TInv'
  <2>1. Enter(f) /\ (out' = PushRecords(f) \/ out' = Guarded(<<<<"invoc">>>>) \o PushRecords(f))
    BY <1>1 DEF Start, Call
  <2> QED
    BY <1>1, <2>1, CallFollowed
<1>2. CASE Return /\ tree' = ReadAll(tree, out')
  BY <1>2, ReturnFollowed
<1>3. CASE /\ \/ \E l \in Loops : HeaderHit(l)
              \/ \E l \in Loops : LoopExit(l)
              \/ Record
              \/ ThreadRec
           /\ tree' = ReadAll(tree, out')
  BY <1>3, OthersFollowed
<1>4. CASE UNCHANGED tvars
  BY <1>4 DEF tvars, vars, TInv, Followed, Voiced, Exceeds
<1>5. ~Discard /\ ~ThreadExit
  BY DEF Discard, ThreadExit
<1> QED
  BY <1>1, <1>2, <1>3, <1>4, <1>5 DEF TreeNext, Next

LEMMA TreeBegins == TreeInit => TInv
<1> SUFFICES ASSUME TreeInit PROVE TInv
  OBVIOUS
<1>1. frames = <<>> /\ tree = [path |-> <<>>, failed |-> FALSE, open |-> FALSE]
  BY DEF TreeInit, Init
<1>2. <<>> \in Seq(Names) /\ Len(<<>>) = 0
  OBVIOUS
<1>3. Reading(tree) /\ tree.path = <<>> /\ ~tree.open
  BY <1>1, <1>2 DEF Reading, Trees
<1> QED
  BY <1>1, <1>2, <1>3 DEF TInv, Followed

\* The thread of the tree's specification is a thread of FuncStack.
LEMMA TreeIsDriven == TreeSpec => Spec
<1>1. TreeInit => Init
  BY DEF TreeInit
<1>2. [TreeNext]_tvars => [Next]_vars
  BY DEF TreeNext, tvars
<1> QED
  BY <1>1, <1>2, PTL DEF TreeSpec, Spec

LEMMA TreeInductive ==
  ASSUME ~Abnormal, NEW reach, LoopsDoNotRecur(reach)
  PROVE  TreeSpec => [](Known /\ TInv)
<1>1. Spec => []Known
  <2>1. Spec => []StackIsCallStack
    BY StackExact
  <2>2. Spec => []LoopGuardExact
    BY LoopLimitExact
  <2> QED
    BY <2>1, <2>2, TypeCorrect, LockExact, PTL DEF Known
<1>2. Known /\ Known' /\ TInv /\ [TreeNext]_tvars => TInv'
  BY TreeStep
<1> QED
  BY <1>1, <1>2, TreeBegins, TreeIsDriven, PTL DEF TreeSpec

\* In a program whose functions return and do not come back into a loop of a caller,
\* the reader never meets a return at the root: the error "Current node has no
\* parent, cannot return" is not reached.
THEOREM ReaderIsSafe ==
  ASSUME ~Abnormal, NEW reach, LoopsDoNotRecur(reach)
  PROVE  TreeSpec => []ReaderNeverFails
<1>1. TInv => ReaderNeverFails
  BY DEF TInv, Reading, ReaderNeverFails
<1> QED
  BY <1>1, TreeInductive, PTL

\* The node the reader stands on is the innermost call it was told of, and exactly
\* where the thread is whenever records are written.
THEOREM ReaderIsWhereTheThreadIs ==
  ASSUME ~Abnormal, NEW reach, LoopsDoNotRecur(reach)
  PROVE  TreeSpec => []PathIsCallPath
<1>1. Known /\ TInv => PathIsCallPath
  <2> SUFFICES ASSUME Known, TInv PROVE PathIsCallPath
    OBVIOUS
  <2>1. /\ Len(frames) \in Nat /\ Len(tree.path) \in Nat /\ tree.path \in Seq(Names)
        /\ Len(tree.path) <= Len(frames)
        /\ CallNames \in Seq(Names) /\ Len(CallNames) = Len(frames)
    <3>1. \A i \in 1..Len(frames) : NameOf[frames[i].func] \in Names
      BY Activations, NameAssumption DEF Known
    <3>2. Len(frames) \in Nat
      BY Stacks DEF Known
    <3> QED
      BY <3>1, <3>2 DEF CallNames, TInv, Followed, Reading, Trees
  <2>2. \A i \in 1..Len(tree.path) : tree.path[i] = CallNames[i]
    BY <2>1 DEF CallNames, TInv, Followed
  <2>3. IsPrefix(tree.path, CallNames)
    BY <2>1, <2>2 DEF IsPrefix
  <2>4. ASSUME ~Silent PROVE tree.path = CallNames
    <3>1. Len(tree.path) = Len(frames)
      BY <2>4, InStepUnlessSilent DEF TInv
    <3> QED
      BY <2>1, <2>2, <3>1, SeqEqual
  <2> QED
    BY <2>3, <2>4 DEF PathIsCallPath
<1> QED
  BY <1>1, TreeInductive, PTL

\* A thread whose outermost function has returned leaves whole lines.
THEOREM LinesEnd ==
  ASSUME ~Abnormal, NEW reach, LoopsDoNotRecur(reach)
  PROVE  TreeSpec => []LinesAreEnded
<1>1. TInv => LinesAreEnded
  BY DEF TInv, LinesAreEnded
<1> QED
  BY <1>1, TreeInductive, PTL

\* Where no two functions share a name, a node below a node of its own name has no
\* children, which the recursion checker asserts: the lock silences what a recursive
\* call does, however deep it recurs.
THEOREM RecursionIsALeaf ==
  ASSUME ~Abnormal, NEW reach, LoopsDoNotRecur(reach),
         \A f, g \in Funcs : NameOf[f] = NameOf[g] => f = g
  PROVE  TreeSpec => []RecursionIsLeaf
<1>1. Known /\ TInv => RecursionIsLeaf
  <2> SUFFICES ASSUME Known, TInv,
                      NEW i \in 1..(Len(tree.path) - 1), NEW j \in 1..(i - 1)
               PROVE  tree.path[i] # tree.path[j]
    BY DEF RecursionIsLeaf
  <2> DEFINE m == Len(tree.path)
             n == Len(frames)
  <2>1. /\ m \in Nat /\ n \in Nat /\ m <= n /\ recurLock.idx \in Nat
        /\ Len(funcStack) = n /\ \A k \in 1..n : funcStack[k] = frames[k].func
        /\ \A k \in 1..m : tree.path[k] = NameOf[frames[k].func]
    BY Stacks DEF Known, StackIsCallStack, TypeOK, TInv, Followed, Reading, Trees
  <2>2. /\ m \in 1..n /\ m \in 1..m /\ i \in 1..m /\ j \in 1..m
        /\ i \in 1..n /\ j \in 1..n /\ j < i /\ i <= m - 1 /\ i <= n
    BY <2>1
  <2>3. Voiced(m)
    BY <2>1, <2>2 DEF TInv, Followed
  <2>4. funcStack[j] # funcStack[i]
    <3>1. CASE recurLock.value
      <4>1. recurLock.idx + 1 >= m
        BY <2>1, <2>3, <3>1 DEF Voiced
      <4>2. i <= recurLock.idx
        BY <2>1, <2>2, <4>1
      <4> QED
        BY <2>1, <2>2, <3>1, <4>2 DEF Known, LockOnOutermostRepeat, DistinctUpTo
    <3>2. CASE ~recurLock.value
      BY <2>1, <2>2, <3>2 DEF Known, LockOnOutermostRepeat, DistinctUpTo
    <3> QED
      BY <3>1, <3>2
  <2>5. frames[i].func \in Funcs /\ frames[j].func \in Funcs
    BY <2>2, Activations DEF Known
  <2> QED
    BY <2>1, <2>2, <2>4, <2>5
<1> QED
  BY <1>1, TreeInductive, PTL

-----------------------------------------------------------------------------
(* The cursor.                                                              *)

\* The names of the functions the thread is executing.
Named ==
  /\ CallNames \in Seq(Names) /\ Len(CallNames) = Len(frames)
  /\ \A i \in 1..Len(frames) : CallNames[i] = NameOf[frames[i].func]

LEMMA NamesOfCalls == TypeOK => Named
<1> SUFFICES ASSUME TypeOK PROVE Named
  OBVIOUS
<1>1. \A i \in 1..Len(frames) : NameOf[frames[i].func] \in Names
  BY Activations, NameAssumption
<1>2. Len(frames) \in Nat
  BY Stacks
<1> QED
  BY <1>1, <1>2 DEF CallNames, Named

\* A step of the thread and its reader is a step of the cursor, or none.
LEMMA CursorStep ==
  ASSUME ~Abnormal, Known, Known', Named, Named', TInv, TInv', [TreeNext]_tvars
  PROVE  [Cursor!Next]_(Cursor!vars)
<1> DEFINE n == Len(frames)
<1>0. n \in Nat /\ tree.path \in Seq(Names) /\ Len(tree.path) \in Nat
  BY Stacks DEF Known, TInv, Reading, Trees
<1>1. ASSUME NEW f \in Funcs, Start(f) \/ Call(f), tree' = ReadAll(tree, out')
      PROVE  Cursor!Next
  <2>1. Enter(f) /\ (out' = PushRecords(f) \/ out' = Guarded(<<<<"invoc">>>>) \o PushRecords(f))
    BY <1>1 DEF Start, Call
  <2>2. NameOf[f] \in Names
    BY NameAssumption
  <2>3. CallNames' = Append(CallNames, NameOf[f])
    <3>1. /\ Len(frames') = n + 1 /\ frames'[n + 1].func = f
          /\ \A j \in 1..n : frames'[j] = frames[j]
      BY <2>1, Stacks DEF Known, Enter
    <3>2. \A j \in 1..(n + 1) : CallNames'[j] = Append(CallNames, NameOf[f])[j]
      <4> SUFFICES ASSUME NEW j \in 1..(n + 1)
                   PROVE  CallNames'[j] = Append(CallNames, NameOf[f])[j]
        OBVIOUS
      <4>1. CASE j = n + 1
        BY <1>0, <2>2, <3>1, <4>1 DEF Named
      <4>2. CASE j \in 1..n
        BY <1>0, <2>2, <3>1, <4>2 DEF Named
      <4>3. j = n + 1 \/ j \in 1..n
        BY <1>0
      <4> QED
        BY <4>1, <4>2, <4>3
    <3>3. Append(CallNames, NameOf[f]) \in Seq(Names) /\ Len(Append(CallNames, NameOf[f])) = n + 1
      BY <1>0, <2>2 DEF Named
    <3> QED
      BY <3>1, <3>2, <3>3, SeqEqual DEF Named
  <2>4. \/ tree'.path = tree.path
        \/ Len(tree.path) = n /\ tree'.path = Append(tree.path, NameOf[f])
    BY <1>1, <2>1, CallFollowed
  <2> QED
    BY <2>2, <2>3, <2>4 DEF Cursor!Next, Cursor!SeenCall, Cursor!HiddenCall, Cursor!InStep, Named
<1>2. CASE Return /\ tree' = ReadAll(tree, out')
  <2>1. /\ n \in Nat \ {0} /\ Len(frames') = n - 1
        /\ \A j \in 1..(n - 1) : frames'[j] = frames[j]
    BY <1>2, ReturnWrites
  <2>2. CallNames' = SubSeq(CallNames, 1, n - 1)
    <3>1. /\ SubSeq(CallNames, 1, n - 1) \in Seq(Names) /\ Len(SubSeq(CallNames, 1, n - 1)) = n - 1
          /\ \A j \in 1..(n - 1) : SubSeq(CallNames, 1, n - 1)[j] = CallNames[j]
      BY <2>1 DEF Named
    <3>2. \A j \in 1..(n - 1) : CallNames'[j] = CallNames[j]
      BY <2>1, SMTT(20) DEF Named
    <3> QED
      BY <2>1, <3>1, <3>2, SeqEqual DEF Named
  <2>3. \/ Len(tree.path) < n /\ tree'.path = tree.path
        \/ Len(tree.path) = n /\ tree'.path = Front(tree.path)
    BY <1>2, ReturnFollowed
  <2>4. CallNames # <<>> /\ Len(CallNames) = n
    BY <2>1 DEF Named
  <2> QED
    BY <1>0, <2>1, <2>2, <2>3, <2>4
       DEF Cursor!Next, Cursor!SeenReturn, Cursor!HiddenReturn, Cursor!InStep, Cursor!Up, Front
<1>3. CASE /\ \/ \E l \in Loops : HeaderHit(l)
              \/ \E l \in Loops : LoopExit(l)
              \/ Record
              \/ ThreadRec
           /\ tree' = ReadAll(tree, out')
  <2>1. /\ tree'.path = tree.path
        /\ Len(frames') = n
        /\ \A i \in 1..n : frames'[i].func = frames[i].func
    BY <1>3, OthersFollowed
  <2>2. CallNames' = CallNames
    BY <2>1, SeqEqual DEF Named
  <2> QED
    BY <2>1, <2>2 DEF Cursor!vars
<1>4. CASE UNCHANGED tvars
  BY <1>4 DEF tvars, vars, Cursor!vars, CallNames
<1>5. ~Discard /\ ~ThreadExit
  BY DEF Discard, ThreadExit
<1> QED
  BY <1>1, <1>2, <1>3, <1>4, <1>5 DEF TreeNext, Next

\* The reader implements the cursor: it moves along an edge of the call tree with
\* the thread, or waits, and goes up only from the node the thread returns from.
THEOREM ReaderFollowsCalls ==
  ASSUME ~Abnormal, NEW reach, LoopsDoNotRecur(reach)
  PROVE  TreeSpec => FollowsCalls
<1>1. TreeInit => Cursor!Init
  BY DEF TreeInit, Init, Cursor!Init, CallNames
<1>2. /\ Known /\ Known' /\ Named /\ Named' /\ TInv /\ TInv' /\ [TreeNext]_tvars
      => [Cursor!Next]_(Cursor!vars)
  BY CursorStep
<1>3. Known => Named
  BY NamesOfCalls DEF Known
<1>4. TreeSpec => Cursor!Spec
  BY <1>1, <1>2, <1>3, TreeInductive, PTL DEF TreeSpec, Cursor!Spec
<1> QED
  BY <1>4 DEF FollowsCalls
=============================================================================
